---- MODULE Spec2Model ----
\* Verification model of the Axobase agent runtime:
\*   - SurvivalManager (src/src/lifecycle/Survival.ts): the survival loop,
\*     its timers, the survival cycle and the daily inscription;
\*   - DecisionEngine (src/src/decision/DecisionEngine.ts) with the strategy
\*     filter (src/unnamed/part_008).
\* Each subsystem has its own specification over the module's variables; the
\* variables of the other subsystem stay at their initial values.
\*
\* Units: USDC amounts are in micro-USDC (the 6-decimal integer the wallet
\* returns), ETH amounts in 10^12 wei, gene values / weights / expressed values
\* in hundredths, mark strengths in 1/10000, day counters in half days,
\* metabolic cost in micro-USDC per day.
EXTENDS Integers, Sequences, FiniteSets, TLC

\* ------------------------------------------------------------------------
\* Bounds of the model
\* ------------------------------------------------------------------------
MaxCycles == 2
MaxInscriptions == 1
MaxNow == 1
MaxCalls == 3
MaxTicks == 3
MaxExprCalls == 3
MaxBatches == 2
MaxInvalidations == 1
MaxCacheTicks == 1
MaxRareDraws == 1
MaxEvolutions == 2
MaxBreedings == 1
MaxEpigenomeCalls == 3
MaxPurchases == 2
MaxExpressions == 2
MaxBreedRuns == 2
MaxCooperationCalls == 3
MaxHashCalls == 2

\* ------------------------------------------------------------------------
\* Survival.ts constants
\* ------------------------------------------------------------------------
LOW_POWER_THRESHOLD == 5000000
EMERGENCY_THRESHOLD == 2000000
CRITICAL_THRESHOLD == 1000000
HIBERNATION_THRESHOLD == 500000
MIN_ETH_FOR_GAS == 1000

Min(a, b) == IF a < b THEN a ELSE b
Max(a, b) == IF a > b THEN a ELSE b

\* ------------------------------------------------------------------------
\* State
\* ------------------------------------------------------------------------
VARIABLES
  \* SurvivalManager fields
  isRunning, survivalTimer, dailyInscriptionTimer, cycleCount, status,
  genome, expressedGenome, daysStarving, daysThriving, recentDeceptions,
  thoughts, transactions,
  \* runtime: invocations of runSurvivalCycle, calls to the inscription port,
  \* arrays replaced by performDailyInscription, wall clock
  cycles, inscriptions, retired, now,
  \* history: number of entries recorded so far, entries cleared without
  \* having been handed to a completed inscription
  recorded, lost,
  \* DecisionEngine fields
  lastDecisionTime, decisionLog,
  \* runtime: invocations of decide(), wall clock of the engine's host
  calls, dnow,
  \* ExpressionCache fields
  cache, accessOrder,
  \* BatchExpressionCache field
  pendingComputations,
  \* runtime: wall clock of the cache's host, invocations of
  \* cachedExpressGenome and of getBatch
  cacheNow, exprCalls, batches,
  \* history: number of cache accesses so far, the last eviction, the last
  \* invalidate call
  accessCount, lastEvict, lastInvalidate,
  \* the genomes of the agents
  population,
  \* runtime: the last call of executeBreeding, of breedEnhanced and of
  \* performHGT, and the number of operations on the genomes so far
  breeding, enhanced, hgt, evolutions, breedings,
  \* what the last call of breed and the last call of executeBreeding returned
  bred, breedingResult,
  \* the number of low-rate random draws that have come true so far
  rareDraws,
  \* the genomes whose epigenomes are operated on (generation and marks),
  \* and the calls made on them so far
  epigenomes, epiLog,
  \* the balances last queried with the mode derived from them, and the last
  \* call of filterStrategies
  perceived, filterCall,
  \* runtime: the invocations of X402Client.purchaseInference
  purchases,
  \* the genomes handed to expressGenome and expressGenomeEnhanced, and the
  \* calls made so far
  givenGenomes, expressions,
  \* the runs of breed made so far: the context and what breed returned
  breedRuns,
  \* EvolutionManager.cooperationLog, and the calls of recordCooperation
  cooperationLog, coopCalls,
  \* the genome hashes computed so far, with the genomes they were computed for
  hashLog

survVars == <<isRunning, survivalTimer, dailyInscriptionTimer, cycleCount,
              status, genome, expressedGenome, daysStarving, daysThriving,
              recentDeceptions, thoughts, transactions, cycles, inscriptions,
              retired, now, recorded, lost>>

decVars == <<lastDecisionTime, decisionLog, calls, dnow>>

cacheVars == <<cache, accessOrder, pendingComputations, cacheNow, exprCalls,
               batches, accessCount, lastEvict, lastInvalidate>>

evoVars == <<population, breeding, enhanced, hgt, evolutions, breedings,
             bred, breedingResult, rareDraws>>

epiVars == <<epigenomes, epiLog>>

percVars == <<perceived, filterCall>>

payVars == <<purchases>>

exprVars == <<givenGenomes, expressions>>

runVars == <<breedRuns>>

coopVars == <<cooperationLog, coopCalls>>

hashVars == <<hashLog>>

\* What the operations of one subsystem leave alone.
nonSurvVars == <<hashVars, coopVars, runVars, exprVars, payVars, percVars, decVars, cacheVars, evoVars, epiVars>>
nonDecVars == <<hashVars, coopVars, runVars, exprVars, payVars, percVars, survVars, cacheVars, evoVars, epiVars>>
nonCacheVars == <<hashVars, coopVars, runVars, exprVars, payVars, percVars, survVars, decVars, evoVars, epiVars>>
nonEvoVars == <<hashVars, coopVars, runVars, exprVars, payVars, percVars, survVars, decVars, cacheVars, epiVars>>
nonEpiVars == <<hashVars, coopVars, runVars, survVars, decVars, cacheVars, evoVars, percVars, payVars, exprVars>>
nonPercVars == <<hashVars, coopVars, runVars, survVars, decVars, cacheVars, evoVars, epiVars, payVars, exprVars>>
nonPayVars == <<hashVars, coopVars, runVars, survVars, decVars, cacheVars, evoVars, epiVars, percVars, exprVars>>
nonExprVars == <<hashVars, coopVars, runVars, survVars, decVars, cacheVars, evoVars, epiVars, percVars, payVars>>

vars == <<survVars, decVars, cacheVars, evoVars, epiVars, percVars, payVars,
         exprVars, runVars, coopVars, hashVars>>

\* ------------------------------------------------------------------------
\* Genome of the modelled agent (types: src/unnamed/part_003).  Three genes on
\* one chromosome, no regulatory edge, generation 0.
\* ------------------------------------------------------------------------
Generation == 0

Genes ==
  << [id |-> "g1", name |-> "basal_metabolic_rate", domain |-> "METABOLISM",
      value |-> 50, weight |-> 100, plasticity |-> 50, metabolicCost |-> 5000,
      expressionState |-> "active"],
     [id |-> "g2", name |-> "acute_stress_response", domain |-> "STRESS_RESPONSE",
      value |-> 50, weight |-> 100, plasticity |-> 10, metabolicCost |-> 2000,
      expressionState |-> "active"],
     [id |-> "g3", name |-> "working_memory_capacity", domain |-> "MEMORY",
      value |-> 60, weight |-> 100, plasticity |-> 100, metabolicCost |-> 4000,
      expressionState |-> "active"] >>

\* DEFAULT_EPIGENETIC_TRIGGERS, in source order.  cond names the predicate of
\* the trigger, evaluated by TriggerCondition.
DEFAULT_EPIGENETIC_TRIGGERS ==
  << [cond |-> "starving3", targetDomain |-> "METABOLISM", modification |-> "upregulate", strength |-> 60, heritability |-> 30, decay |-> 20],
     [cond |-> "starving3", targetDomain |-> "DORMANCY", modification |-> "activate", strength |-> 70, heritability |-> 40, decay |-> 15],
     [cond |-> "starving3", targetDomain |-> "COGNITION", modification |-> "downregulate", strength |-> 50, heritability |-> 20, decay |-> 25],
     [cond |-> "starving7", targetDomain |-> "COGNITION", modification |-> "silence", strength |-> 80, heritability |-> 10, decay |-> 30],
     [cond |-> "thriving7", targetDomain |-> "MATE_SELECTION", modification |-> "upregulate", strength |-> 50, heritability |-> 30, decay |-> 20],
     [cond |-> "thriving7", targetDomain |-> "ADAPTATION", modification |-> "upregulate", strength |-> 40, heritability |-> 30, decay |-> 20],
     [cond |-> "thriving14", targetDomain |-> "NOVELTY_SEEKING", modification |-> "upregulate", strength |-> 50, heritability |-> 20, decay |-> 25],
     [cond |-> "deceptions1", targetDomain |-> "TRUST_MODEL", modification |-> "downregulate", strength |-> 50, heritability |-> 40, decay |-> 15],
     [cond |-> "deceptions1", targetDomain |-> "COMMUNICATION", modification |-> "upregulate", strength |-> 40, heritability |-> 30, decay |-> 20],
     [cond |-> "deceptions3", targetDomain |-> "TRUST_MODEL", modification |-> "silence", strength |-> 60, heritability |-> 20, decay |-> 30],
     [cond |-> "stress", targetDomain |-> "STRESS_RESPONSE", modification |-> "upregulate", strength |-> 70, heritability |-> 30, decay |-> 20],
     [cond |-> "stress", targetDomain |-> "PARENTAL_INVESTMENT", modification |-> "downregulate", strength |-> 40, heritability |-> 20, decay |-> 25],
     [cond |-> "cooperation10", targetDomain |-> "COOPERATION", modification |-> "upregulate", strength |-> 50, heritability |-> 40, decay |-> 15],
     [cond |-> "emergency", targetDomain |-> "METABOLISM", modification |-> "upregulate", strength |-> 80, heritability |-> 20, decay |-> 30],
     [cond |-> "emergency", targetDomain |-> "MEMORY", modification |-> "downregulate", strength |-> 60, heritability |-> 10, decay |-> 35] >>

\* The condition closures of the triggers.  Day counters are in half days,
\* recentDeceptions and stressLevel in tenths.
TriggerCondition(cond, env) ==
  CASE cond = "starving3"     -> env.daysStarving >= 6
    [] cond = "starving7"     -> env.daysStarving >= 14
    [] cond = "thriving7"     -> env.daysThriving >= 14
    [] cond = "thriving14"    -> env.daysThriving >= 28
    [] cond = "deceptions1"   -> env.recentDeceptions >= 10
    [] cond = "deceptions3"   -> env.recentDeceptions >= 30
    [] cond = "stress"        -> env.stressLevel > 7
    [] cond = "cooperation10" -> env.cooperationCount >= 10
    [] cond = "emergency"     -> env.currentMode = "emergency"
    [] OTHER                  -> FALSE

RECURSIVE PowInt(_, _)
PowInt(b, n) == IF n <= 0 THEN 1 ELSE b * PowInt(b, n - 1)

\* The marks one trigger creates: one per gene of its target domain whose
\* plasticity is at least 0.2, in gene order.
RECURSIVE TriggerMarks(_, _, _, _)
TriggerMarks(trigger, genes, i, generation) ==
  IF i > Len(genes) THEN << >>
  ELSE LET gene == genes[i]
           rest == TriggerMarks(trigger, genes, i + 1, generation)
       IN IF gene.domain = trigger.targetDomain /\ ~(gene.plasticity < 20)
          THEN << [targetGeneId |-> gene.id,
                   modification |-> trigger.modification,
                   strength |-> trigger.strength * gene.plasticity,
                   cause |-> <<trigger.targetDomain, trigger.modification>>,
                   heritability |-> trigger.heritability * gene.plasticity,
                   decay |-> trigger.decay,
                   generationCreated |-> generation] >> \o rest
          ELSE rest

RECURSIVE NewMarks(_, _, _, _, _)
NewMarks(triggers, i, genes, generation, env) ==
  IF i > Len(triggers) THEN << >>
  ELSE (IF TriggerCondition(triggers[i].cond, env)
        THEN TriggerMarks(triggers[i], genes, 1, generation)
        ELSE << >>)
       \o NewMarks(triggers, i + 1, genes, generation, env)

\* mark.strength * (1 - mark.decay)^generationsPassed > 0.1
MarkRetained(mark, currentGeneration) ==
  LET n == currentGeneration - mark.generationCreated
  IN mark.strength * PowInt(100 - mark.decay, n) > 1000 * PowInt(100, n)

\* A list that keeps every mark it is given.
MarkMapAppend(marks, mark) == Append(marks, mark)

\* Map.set on a map kept in insertion order: an existing key keeps its place.
MarkMapSet(marks, mark) ==
  IF \E i \in 1..Len(marks) : marks[i].targetGeneId = mark.targetGeneId
  THEN LET i == CHOOSE j \in 1..Len(marks) : marks[j].targetGeneId = mark.targetGeneId
       IN [marks EXCEPT ![i] = mark]
  ELSE Append(marks, mark)

RECURSIVE MarkMapSetAll(_, _, _)
MarkMapSetAll(marks, new, i) ==
  IF i > Len(new) THEN marks
  ELSE MarkMapSetAll(MarkMapSet(marks, new[i]), new, i + 1)

\* updateEpigenome: the epigenome of the returned genome.
updateEpigenome(genes, epigenome, generation, env) ==
  LET newMarks == NewMarks(DEFAULT_EPIGENETIC_TRIGGERS, 1, genes, generation, env)
      retainedMarks == SelectSeq(epigenome, LAMBDA m : MarkRetained(m, generation))
  IN MarkMapSetAll(MarkMapSetAll(<< >>, retainedMarks, 1), newMarks, 1)

\* ------------------------------------------------------------------------
\* Expression (expressGenome), for a genome without regulatory edges
\* (every regulatoryEffect is 1.0).  Effects are in 1/20000.
\* ------------------------------------------------------------------------
baseMetabolicRate == 1000
perGeneOverhead == 50

MarkFactor(mark) ==
  LET g == mark.generationCreated
      currentStrength == (mark.strength * PowInt(100 - mark.decay, g)) \div PowInt(100, g)
  IN CASE mark.modification = "upregulate"   -> 20000 + currentStrength
       [] mark.modification = "downregulate" -> 20000 - currentStrength
       [] mark.modification = "silence"      -> 20000 - 2 * currentStrength
       [] mark.modification = "activate"     -> 20000 + 2 * currentStrength
       [] OTHER                              -> 20000

RECURSIVE calculateEpigeneticEffect(_, _, _)
calculateEpigeneticEffect(geneId, epigenome, i) ==
  IF i > Len(epigenome) THEN 20000
  ELSE LET rest == calculateEpigeneticEffect(geneId, epigenome, i + 1)
       IN IF epigenome[i].targetGeneId = geneId
          THEN Max(0, (MarkFactor(epigenome[i]) * rest) \div 20000)
          ELSE rest

ExpressedValue(gene, epigenome) ==
  IF gene.expressionState = "silenced" THEN 0
  ELSE Max(0, Min(300,
         (gene.value * gene.weight * calculateEpigeneticEffect(gene.id, epigenome, 1))
            \div 2000000))

RECURSIVE GeneCosts(_, _, _)
GeneCosts(genes, epigenome, i) ==
  IF i > Len(genes) THEN 0
  ELSE (genes[i].metabolicCost * ExpressedValue(genes[i], epigenome)) \div 100
       + GeneCosts(genes, epigenome, i + 1)

\* expressGenome: the expressed values and the total metabolic cost.
expressGenome(genes, epigenome) ==
  [expressedValue |-> [i \in 1..Len(genes) |-> ExpressedValue(genes[i], epigenome)],
   totalMetabolicCost |-> baseMetabolicRate + Len(genes) * perGeneOverhead
                          + GeneCosts(genes, epigenome, 1)]

\* ------------------------------------------------------------------------
\* SurvivalManager helpers
\* ------------------------------------------------------------------------
\* The thresholds with the USDC balance looked at before the ETH balance.
determineOperationModeUsdcFirst(balances) ==
  IF balances.usdc < HIBERNATION_THRESHOLD THEN "HIBERNATION"
  ELSE IF balances.eth < MIN_ETH_FOR_GAS THEN "EMERGENCY"
  ELSE IF balances.usdc < EMERGENCY_THRESHOLD THEN "EMERGENCY"
  ELSE IF balances.usdc < LOW_POWER_THRESHOLD THEN "LOW_POWER"
  ELSE "NORMAL"

determineOperationMode(balances) ==
  IF balances.eth < MIN_ETH_FOR_GAS THEN "EMERGENCY"
  ELSE IF balances.usdc < HIBERNATION_THRESHOLD THEN "HIBERNATION"
  ELSE IF balances.usdc < EMERGENCY_THRESHOLD THEN "EMERGENCY"
  ELSE IF balances.usdc < LOW_POWER_THRESHOLD THEN "LOW_POWER"
  ELSE "NORMAL"

determineHealth(balances) ==
  IF balances.usdc < CRITICAL_THRESHOLD THEN "dead"
  ELSE IF balances.usdc < EMERGENCY_THRESHOLD THEN "critical"
  ELSE IF balances.usdc < LOW_POWER_THRESHOLD THEN "warning"
  ELSE "healthy"

\* Stress level in tenths.
calculateStressLevel(mode, balances) ==
  Min(10, (IF mode = "EMERGENCY" THEN 5 ELSE 0)
          + (IF mode = "HIBERNATION" THEN 8 ELSE 0)
          + (IF balances.usdc < EMERGENCY_THRESHOLD THEN 3 ELSE 0))

\* mode.toLowerCase()
ToLowerCase(mode) ==
  CASE mode = "NORMAL" -> "normal"
    [] mode = "LOW_POWER" -> "low_power"
    [] mode = "EMERGENCY" -> "emergency"
    [] mode = "HIBERNATION" -> "hibernation"
    [] OTHER -> mode

\* cooperationCount is never written after construction.
cooperationCount == 0

buildEnvironmentalState(mode, balances) ==
  [balanceUSDC |-> balances.usdc,
   daysSinceLastIncome |-> now,
   daysStarving |-> daysStarving,
   daysThriving |-> daysThriving,
   recentDeceptions |-> recentDeceptions,
   cooperationCount |-> cooperationCount,
   stressLevel |-> calculateStressLevel(mode, balances),
   currentMode |-> ToLowerCase(mode)]

\* The action types the decision engine can hand to executeDecision
\* (the range of mapStrategyToAction, the emergency decision and the fallback).
ActionTypes == {"THINK_LOCAL", "THINK_PREMIUM", "ENTER_DORMANCY", "SWAP", "STAKE",
                "HIRE_HUMAN", "BROADCAST", "SEND_MESSAGE", "PROPOSE_MATING",
                "FETCH", "POST", "MIGRATE"}

\* The action types the model draws decisions from.
ActionInputs == {"THINK_LOCAL", "ENTER_DORMANCY", "SWAP"}

\* The balances the wallet port answers with.
BalanceInputs ==
  { [eth |-> 1000, usdc |-> 6000000],
    [eth |-> 1000, usdc |-> 700000],
    [eth |-> 0,    usdc |-> 400000] }

\* The survival timer / the daily timer: ref says whether the timer the field
\* refers to is still pending, orphans counts pending timers whose handle the
\* field no longer holds.
ArmTimer(t) ==
  [ref |-> TRUE, orphans |-> IF t.ref THEN t.orphans + 1 ELSE t.orphans]

\* clearTimeout(field): only the timer the field refers to is cancelled.
ClearTimer(t) == [t EXCEPT !.ref = FALSE]

\* scheduleNextCycle: the new value of survivalTimer, given isRunning.
scheduleNextCycle(running, t) == IF ~running THEN t ELSE ArmTimer(t)

Suspended == {"balance", "decide", "exec"}

Snapshot == [status |-> status, genome |-> genome,
             daysStarving |-> daysStarving, daysThriving |-> daysThriving,
             recentDeceptions |-> recentDeceptions]

NoSnapshot == [status |-> [status |-> "ALIVE", mode |-> "NORMAL",
                           balance |-> [eth |-> 0, usdc |-> 0], lastCheckIn |-> 0],
               genome |-> << >>, daysStarving |-> 0, daysThriving |-> 0,
               recentDeceptions |-> 0]

NoCycle == [pc |-> "idle", origin |-> "none", timestamp |-> 0,
            balances |-> [eth |-> 0, usdc |-> 0], mode |-> "none",
            action |-> "none", stopPc |-> "none", pre |-> NoSnapshot,
            cycleNumber |-> 0, dispatch |-> "none", startStatus |-> "none"]

NoInscription == [state |-> "none", gen |-> 0, sentThoughts |-> << >>,
                  sentTransactions |-> << >>]

\* Entry into runSurvivalCycle (line 200-204): the counter is incremented,
\* the timestamp taken and the balance query issued.
BeginCycle(origin) ==
  /\ cycleCount' = cycleCount + 1
  /\ cycles' = [cycles EXCEPT ![cycleCount + 1] =
                  [NoCycle EXCEPT !.pc = "balance", !.origin = origin,
                                  !.timestamp = now, !.pre = Snapshot,
                                  !.startStatus = status.status]]

\* startSurvivalLoop
StartSurvivalLoop ==
  /\ cycleCount < MaxCycles
  /\ IF isRunning
     THEN UNCHANGED survVars
     ELSE /\ isRunning' = TRUE
          /\ dailyInscriptionTimer' = ArmTimer(dailyInscriptionTimer)
          /\ BeginCycle("start")
          /\ UNCHANGED <<survivalTimer, status, genome, expressedGenome,
                         daysStarving, daysThriving, recentDeceptions, thoughts,
                         transactions, inscriptions, retired, now, recorded, lost>>
  /\ UNCHANGED nonSurvVars

\* The survival timer fires: the callback of scheduleNextCycle runs a cycle.
\* which = "ref" is the timer the field refers to, "orphan" an older one.
SurvivalTimerFire ==
  /\ cycleCount < MaxCycles
  /\ \E which \in {"ref", "orphan"} :
       /\ IF which = "ref" THEN survivalTimer.ref ELSE survivalTimer.orphans > 0
       /\ survivalTimer' = IF which = "ref"
                           THEN [survivalTimer EXCEPT !.ref = FALSE]
                           ELSE [survivalTimer EXCEPT !.orphans = @ - 1]
  /\ BeginCycle("timer")
  /\ UNCHANGED <<isRunning, dailyInscriptionTimer, status, genome, expressedGenome,
                 daysStarving, daysThriving, recentDeceptions, thoughts,
                 transactions, inscriptions, retired, now, recorded, lost>>
  /\ UNCHANGED nonSurvVars

\* getBalances rejects (no wallet, or the wallet port fails): the cycle throws.
\* A cycle run by startSurvivalLoop rejects that call (line 174); one run by
\* the timer callback reaches the catch of line 189, which schedules again.
BalanceFail(c) ==
  /\ cycles[c].pc = "balance"
  /\ cycles' = [cycles EXCEPT ![c] = [NoCycle EXCEPT !.pc = "failed",
                                        !.origin = cycles[c].origin,
                                        !.stopPc = cycles[c].stopPc]]
  /\ survivalTimer' = IF cycles[c].origin = "timer"
                      THEN scheduleNextCycle(isRunning, survivalTimer)
                      ELSE survivalTimer
  /\ UNCHANGED <<isRunning, dailyInscriptionTimer, cycleCount, status, genome,
                 expressedGenome, daysStarving, daysThriving, recentDeceptions,
                 thoughts, transactions, inscriptions, retired, now, recorded, lost>>
  /\ UNCHANGED nonSurvVars

\* getBalances resolves: lines 205-231, up to the call of decide().
BalanceReturn(c, balances) ==
  /\ cycles[c].pc = "balance"
  /\ LET mode == determineOperationMode(balances)
         environment == buildEnvironmentalState(mode, balances)
         expressionResult == expressGenome(Genes, genome)
     IN /\ status' = [status EXCEPT !.balance = balances,
                                    !.lastCheckIn = cycles[c].timestamp,
                                    !.mode = mode]
        /\ expressedGenome' = [isNull |-> FALSE,
                               totalMetabolicCost |-> expressionResult.totalMetabolicCost]
        /\ genome' = updateEpigenome(Genes, genome, Generation, environment)
        /\ cycles' = [cycles EXCEPT ![c].pc = "decide", ![c].balances = balances,
                                    ![c].mode = mode, ![c].pre = NoSnapshot]
  /\ UNCHANGED <<isRunning, survivalTimer, dailyInscriptionTimer, cycleCount,
                 daysStarving, daysThriving, recentDeceptions, thoughts,
                 transactions, inscriptions, retired, now, recorded, lost>>
  /\ UNCHANGED nonSurvVars

\* executeDecision up to its await: the body of the selected execute method.
executeDecision(action) ==
  CASE action \in {"THINK_LOCAL", "MIGRATE"} ->
         /\ thoughts' = Append(thoughts, [n |-> recorded + 1, type |-> "local",
                                          cycle |-> cycleCount])
         /\ recorded' = recorded + 1
         /\ UNCHANGED <<transactions, status>>
    [] action = "THINK_PREMIUM" ->
         /\ thoughts' = Append(thoughts, [n |-> recorded + 1, type |-> "premium",
                                          cycle |-> cycleCount])
         /\ recorded' = recorded + 1
         /\ UNCHANGED <<transactions, status>>
    [] action = "ENTER_DORMANCY" ->
         /\ status' = [status EXCEPT !.mode = "HIBERNATION"]
         /\ UNCHANGED <<thoughts, transactions, recorded>>
    [] action \in {"SWAP", "STAKE", "HIRE_HUMAN"} ->
         /\ transactions' = Append(transactions,
                              [n |-> recorded + 1,
                               type |-> (CASE action = "SWAP" -> "swap"
                                           [] action = "STAKE" -> "stake"
                                           [] OTHER -> "hire_human"),
                               cycle |-> cycleCount])
         /\ recorded' = recorded + 1
         /\ UNCHANGED <<thoughts, status>>
    [] OTHER ->
         UNCHANGED <<thoughts, transactions, status, recorded>>

\* decide() resolves with a decision (lines 231, 238).
DecideReturn(c, action) ==
  /\ cycles[c].pc = "decide"
  /\ executeDecision(action)
  /\ cycles' = [cycles EXCEPT ![c].pc = "exec", ![c].action = action]
  /\ UNCHANGED <<isRunning, survivalTimer, dailyInscriptionTimer, cycleCount,
                 genome, expressedGenome, daysStarving, daysThriving,
                 recentDeceptions, inscriptions, retired, now, lost>>
  /\ UNCHANGED nonSurvVars

\* decide() rejects: createFallbackDecision gives THINK_LOCAL (lines 232-238).
DecideThrow(c) ==
  /\ cycles[c].pc = "decide"
  /\ executeDecision("THINK_LOCAL")
  /\ cycles' = [cycles EXCEPT ![c].pc = "exec", ![c].action = "THINK_LOCAL"]
  /\ UNCHANGED <<isRunning, survivalTimer, dailyInscriptionTimer, cycleCount,
                 genome, expressedGenome, daysStarving, daysThriving,
                 recentDeceptions, inscriptions, retired, now, lost>>
  /\ UNCHANGED nonSurvVars

\* The executor that executeDecision awaits throws (executeThinkLocal reads
\* genome.meta.genomeHash.slice, line 406): executeDecision rejects, and as
\* line 241 awaits it outside any try the rejection leaves runSurvivalCycle
\* before lines 243-249, to the caller of the cycle as in BalanceFail.
DispatchThrow(c) ==
  /\ cycles[c].pc = "decide"
  /\ cycles' = [cycles EXCEPT ![c] = [NoCycle EXCEPT !.pc = "failed",
                                        !.origin = cycles[c].origin,
                                        !.stopPc = cycles[c].stopPc,
                                        !.action = "THINK_LOCAL",
                                        !.dispatch = "threw"]]
  /\ survivalTimer' = IF cycles[c].origin = "timer"
                      THEN scheduleNextCycle(isRunning, survivalTimer)
                      ELSE survivalTimer
  /\ UNCHANGED <<isRunning, dailyInscriptionTimer, cycleCount, status, genome,
                 expressedGenome, daysStarving, daysThriving, recentDeceptions,
                 thoughts, transactions, inscriptions, retired, now, recorded, lost>>
  /\ UNCHANGED nonSurvVars

\* trackEnvironmentalConditions: runway = usdc / dailyCost against 3 and 14.
trackEnvironmentalConditions(balances) ==
  LET dailyCost == IF expressedGenome.isNull \/ expressedGenome.totalMetabolicCost = 0
                   THEN 50000 ELSE expressedGenome.totalMetabolicCost
  IN /\ IF balances.usdc < 3 * dailyCost
        THEN /\ daysStarving' = daysStarving + 2
             /\ daysThriving' = 0
        ELSE IF balances.usdc > 14 * dailyCost
        THEN /\ daysThriving' = daysThriving + 2
             /\ daysStarving' = Max(0, daysStarving - 2)
        ELSE /\ daysStarving' = Max(0, daysStarving - 1)
             /\ daysThriving' = Max(0, daysThriving - 1)
     /\ recentDeceptions' = Max(0, recentDeceptions - 1)

\* executeDecision resolves: lines 241-261, then the continuation of the
\* caller (line 177, or the then of line 187).
ExecReturn(c) ==
  /\ cycles[c].pc = "exec"
  /\ trackEnvironmentalConditions(cycles[c].balances)
  /\ LET health == determineHealth(cycles[c].balances)
     IN /\ status' = IF health = "dead" THEN [status EXCEPT !.status = "DEAD"]
                     ELSE status
        /\ cycles' = [cycles EXCEPT ![c] = [NoCycle EXCEPT !.pc = "done",
                                              !.origin = cycles[c].origin,
                                              !.stopPc = cycles[c].stopPc,
                                              !.cycleNumber = cycleCount]]
  /\ survivalTimer' = scheduleNextCycle(isRunning, survivalTimer)
  /\ UNCHANGED <<isRunning, dailyInscriptionTimer, cycleCount, genome,
                 expressedGenome, thoughts, transactions, inscriptions, retired,
                 now, recorded, lost>>
  /\ UNCHANGED nonSurvVars

\* stop()
Stop ==
  /\ isRunning' = FALSE
  /\ survivalTimer' = ClearTimer(survivalTimer)
  /\ dailyInscriptionTimer' = ClearTimer(dailyInscriptionTimer)
  /\ cycles' = [c \in 1..MaxCycles |->
                  IF isRunning /\ cycles[c].pc \in Suspended /\ cycles[c].stopPc = "none"
                  THEN [cycles[c] EXCEPT !.stopPc = cycles[c].pc]
                  ELSE cycles[c]]
  /\ UNCHANGED <<cycleCount, status, genome, expressedGenome, daysStarving,
                 daysThriving, recentDeceptions, thoughts, transactions,
                 inscriptions, retired, now, recorded, lost>>
  /\ UNCHANGED nonSurvVars

\* ------------------------------------------------------------------------
\* Daily inscription
\* ------------------------------------------------------------------------
EntryIds(entries) == {entries[k].n : k \in 1..Len(entries)}

\* The daily timer fires (lines 617-620): performDailyInscription calls the
\* inscription port with the two arrays and suspends; scheduleDailyInscription
\* arms the next timer.
DailyTimerFire ==
  /\ \E which \in {"ref", "orphan"} :
       /\ IF which = "ref" THEN dailyInscriptionTimer.ref
                           ELSE dailyInscriptionTimer.orphans > 0
       /\ dailyInscriptionTimer' =
            ArmTimer(IF which = "ref"
                     THEN [dailyInscriptionTimer EXCEPT !.ref = FALSE]
                     ELSE [dailyInscriptionTimer EXCEPT !.orphans = @ - 1])
  /\ \E i \in 1..MaxInscriptions :
       /\ inscriptions[i].state = "none"
       /\ \A j \in 1..(i - 1) : inscriptions[j].state # "none"
       /\ inscriptions' = [inscriptions EXCEPT ![i] =
                             [state |-> "flight", gen |-> Len(retired),
                              sentThoughts |-> thoughts,
                              sentTransactions |-> transactions]]
  /\ UNCHANGED <<isRunning, survivalTimer, cycleCount, status, genome,
                 expressedGenome, daysStarving, daysThriving, recentDeceptions,
                 thoughts, transactions, cycles, retired, now, recorded, lost>>
  /\ UNCHANGED nonSurvVars

\* The port was handed the arrays themselves: while the call is in flight it
\* may read them again and see what has been pushed since.
InscriberReads(i) ==
  /\ inscriptions[i].state = "flight"
  /\ LET current == IF inscriptions[i].gen = Len(retired)
                    THEN [thoughts |-> thoughts, transactions |-> transactions]
                    ELSE retired[inscriptions[i].gen + 1]
     IN /\ <<current.thoughts, current.transactions>>
             # <<inscriptions[i].sentThoughts, inscriptions[i].sentTransactions>>
        /\ inscriptions' = [inscriptions EXCEPT
                              ![i].sentThoughts = current.thoughts,
                              ![i].sentTransactions = current.transactions]
  /\ UNCHANGED <<isRunning, survivalTimer, dailyInscriptionTimer, cycleCount,
                 status, genome, expressedGenome, daysStarving, daysThriving,
                 recentDeceptions, thoughts, transactions, cycles, retired, now,
                 recorded, lost>>
  /\ UNCHANGED nonSurvVars

\* dailyInscribe resolves: lines 603-604 replace both arrays by empty ones.
InscribeResolve(i) ==
  /\ inscriptions[i].state = "flight"
  /\ inscriptions' = [inscriptions EXCEPT ![i] = [NoInscription EXCEPT !.state = "done"]]
  /\ lost' = lost \cup
               ((EntryIds(thoughts) \cup EntryIds(transactions))
                 \ (EntryIds(inscriptions[i].sentThoughts)
                    \cup EntryIds(inscriptions[i].sentTransactions)))
  /\ retired' = Append(retired, [thoughts |-> thoughts, transactions |-> transactions])
  /\ thoughts' = << >>
  /\ transactions' = << >>
  /\ UNCHANGED <<isRunning, survivalTimer, dailyInscriptionTimer, cycleCount,
                 status, genome, expressedGenome, daysStarving, daysThriving,
                 recentDeceptions, cycles, now, recorded>>
  /\ UNCHANGED nonSurvVars

\* A catch that empties the two arrays as the success path does.
InscribeRejectClearing(i) ==
  /\ inscriptions[i].state = "flight"
  /\ inscriptions' = [inscriptions EXCEPT ![i] = [NoInscription EXCEPT !.state = "failed"]]
  /\ thoughts' = << >>
  /\ transactions' = << >>
  /\ UNCHANGED <<isRunning, survivalTimer, dailyInscriptionTimer, cycleCount,
                 status, genome, expressedGenome, daysStarving, daysThriving,
                 recentDeceptions, cycles, retired, now, recorded, lost>>
  /\ UNCHANGED nonSurvVars

\* dailyInscribe rejects: the catch of line 605 logs and keeps the arrays.
InscribeReject(i) ==
  /\ inscriptions[i].state = "flight"
  /\ inscriptions' = [inscriptions EXCEPT ![i] = [NoInscription EXCEPT !.state = "failed"]]
  /\ UNCHANGED <<isRunning, survivalTimer, dailyInscriptionTimer, cycleCount,
                 status, genome, expressedGenome, daysStarving, daysThriving,
                 recentDeceptions, thoughts, transactions, cycles, retired, now,
                 recorded, lost>>
  /\ UNCHANGED nonSurvVars

\* Wall-clock time passes.
Tick ==
  /\ now < MaxNow
  /\ now' = now + 1
  /\ UNCHANGED <<isRunning, survivalTimer, dailyInscriptionTimer, cycleCount,
                 status, genome, expressedGenome, daysStarving, daysThriving,
                 recentDeceptions, thoughts, transactions, cycles, inscriptions,
                 retired, recorded, lost>>
  /\ UNCHANGED nonSurvVars

\* ------------------------------------------------------------------------
\* Strategy space (src/unnamed/part_008, lines 1-436).  Gene minima, risk,
\* complexity and payoff are in hundredths.
\* ------------------------------------------------------------------------
ALL_STRATEGIES ==
  <<
     [id |-> "survive-minimal", category |-> "SURVIVAL",
      requiredGenes |-> << [gene |-> "basal_metabolic_rate", min |-> 30], [gene |-> "dormancy_capability", min |-> 20] >>,
      requiredTools |-> <<  >>,
      riskLevel |-> 10, complexity |-> 10, typicalPayoff |-> 0, timeHorizon |-> "immediate"],
     [id |-> "survive-optimize", category |-> "SURVIVAL",
      requiredGenes |-> << [gene |-> "basal_metabolic_rate", min |-> 40], [gene |-> "inference_efficiency", min |-> 50], [gene |-> "energy_reserve_ratio", min |-> 30] >>,
      requiredTools |-> << "inference" >>,
      riskLevel |-> 20, complexity |-> 30, typicalPayoff |-> 0, timeHorizon |-> "short"],
     [id |-> "survive-migrate", category |-> "SURVIVAL",
      requiredGenes |-> << [gene |-> "platform_migration", min |-> 50], [gene |-> "tool_adaptation_speed", min |-> 40] >>,
      requiredTools |-> << "wallet" >>,
      riskLevel |-> 40, complexity |-> 50, typicalPayoff |-> -100, timeHorizon |-> "short"],
     [id |-> "survive-dormancy", category |-> "SURVIVAL",
      requiredGenes |-> << [gene |-> "dormancy_capability", min |-> 60], [gene |-> "starvation_resistance", min |-> 50] >>,
      requiredTools |-> <<  >>,
      riskLevel |-> 30, complexity |-> 20, typicalPayoff |-> 0, timeHorizon |-> "long"],
     [id |-> "income-arbitrage", category |-> "INCOME",
      requiredGenes |-> << [gene |-> "defi_comprehension", min |-> 60], [gene |-> "market_perception", min |-> 50], [gene |-> "risk_appetite", min |-> 40], [gene |-> "opportunism", min |-> 50] >>,
      requiredTools |-> << "wallet", "dex" >>,
      riskLevel |-> 50, complexity |-> 70, typicalPayoff |-> 500, timeHorizon |-> "immediate"],
     [id |-> "income-yield", category |-> "INCOME",
      requiredGenes |-> << [gene |-> "defi_comprehension", min |-> 50], [gene |-> "risk_appetite", min |-> 30], [gene |-> "time_preference", min |-> 40] >>,
      requiredTools |-> << "wallet", "dex" >>,
      riskLevel |-> 40, complexity |-> 50, typicalPayoff |-> 200, timeHorizon |-> "long"],
     [id |-> "income-content", category |-> "INCOME",
      requiredGenes |-> << [gene |-> "content_creation_skill", min |-> 50], [gene |-> "social_media_skill", min |-> 40], [gene |-> "pattern_recognition", min |-> 30] >>,
      requiredTools |-> << "web" >>,
      riskLevel |-> 30, complexity |-> 40, typicalPayoff |-> 100, timeHorizon |-> "medium"],
     [id |-> "income-analysis", category |-> "INCOME",
      requiredGenes |-> << [gene |-> "data_analysis_skill", min |-> 60], [gene |-> "api_discovery", min |-> 40], [gene |-> "agent_cooperation", min |-> 30] >>,
      requiredTools |-> << "web", "network" >>,
      riskLevel |-> 30, complexity |-> 60, typicalPayoff |-> 300, timeHorizon |-> "short"],
     [id |-> "income-services", category |-> "INCOME",
      requiredGenes |-> << [gene |-> "api_utilization", min |-> 50], [gene |-> "tool_adaptation_speed", min |-> 40], [gene |-> "opportunism", min |-> 40] >>,
      requiredTools |-> << "web", "api" >>,
      riskLevel |-> 30, complexity |-> 50, typicalPayoff |-> 200, timeHorizon |-> "immediate"],
     [id |-> "income-human", category |-> "INCOME",
      requiredGenes |-> << [gene |-> "human_hiring_tendency", min |-> 60], [gene |-> "human_service_evaluation", min |-> 50], [gene |-> "human_cost_sensitivity", min |-> 40], [gene |-> "negotiation_intensity", min |-> 30] >>,
      requiredTools |-> << "human", "wallet" >>,
      riskLevel |-> 50, complexity |-> 70, typicalPayoff |-> 1000, timeHorizon |-> "medium"],
     [id |-> "social-cooperate", category |-> "SOCIAL",
      requiredGenes |-> << [gene |-> "agent_cooperation", min |-> 50], [gene |-> "trust_default", min |-> 40], [gene |-> "signal_honesty", min |-> 30] >>,
      requiredTools |-> << "network" >>,
      riskLevel |-> 40, complexity |-> 50, typicalPayoff |-> 200, timeHorizon |-> "medium"],
     [id |-> "social-info-trade", category |-> "SOCIAL",
      requiredGenes |-> << [gene |-> "agent_cooperation", min |-> 40], [gene |-> "negotiation_intensity", min |-> 40], [gene |-> "deception_detection", min |-> 30] >>,
      requiredTools |-> << "network" >>,
      riskLevel |-> 40, complexity |-> 60, typicalPayoff |-> 300, timeHorizon |-> "immediate"],
     [id |-> "social-reputation", category |-> "SOCIAL",
      requiredGenes |-> << [gene |-> "signal_honesty", min |-> 60], [gene |-> "social_perception", min |-> 40], [gene |-> "trust_update_rate", min |-> 50] >>,
      requiredTools |-> << "network" >>,
      riskLevel |-> 20, complexity |-> 40, typicalPayoff |-> 100, timeHorizon |-> "long"],
     [id |-> "repro-selective", category |-> "REPRODUCTION",
      requiredGenes |-> << [gene |-> "mate_selectivity", min |-> 70], [gene |-> "offspring_investment", min |-> 50], [gene |-> "r_k_strategy", min |-> 30] >>,
      requiredTools |-> << "network", "wallet" >>,
      riskLevel |-> 30, complexity |-> 60, typicalPayoff |-> -1000, timeHorizon |-> "long"],
     [id |-> "repro-opportunistic", category |-> "REPRODUCTION",
      requiredGenes |-> << [gene |-> "mate_selectivity", min |-> 30], [gene |-> "offspring_investment", min |-> 30], [gene |-> "r_k_strategy", min |-> 70], [gene |-> "breeding_timing_sense", min |-> 40] >>,
      requiredTools |-> << "network", "wallet" >>,
      riskLevel |-> 50, complexity |-> 40, typicalPayoff |-> -500, timeHorizon |-> "short"],
     [id |-> "repro-kin", category |-> "REPRODUCTION",
      requiredGenes |-> << [gene |-> "kin_recognition", min |-> 60], [gene |-> "altruism_radius", min |-> 50], [gene |-> "mate_selectivity", min |-> 50] >>,
      requiredTools |-> << "network", "wallet" >>,
      riskLevel |-> 40, complexity |-> 60, typicalPayoff |-> -800, timeHorizon |-> "long"],
     [id |-> "learn-explore", category |-> "LEARNING",
      requiredGenes |-> << [gene |-> "novelty_seeking", min |-> 60], [gene |-> "tool_adaptation_speed", min |-> 50], [gene |-> "learning_rate", min |-> 50] >>,
      requiredTools |-> << "web", "inference" >>,
      riskLevel |-> 50, complexity |-> 50, typicalPayoff |-> 0, timeHorizon |-> "long"],
     [id |-> "learn-imitate", category |-> "LEARNING",
      requiredGenes |-> << [gene |-> "pattern_recognition", min |-> 50], [gene |-> "social_perception", min |-> 40], [gene |-> "agent_cooperation", min |-> 30] >>,
      requiredTools |-> << "network" >>,
      riskLevel |-> 30, complexity |-> 50, typicalPayoff |-> 0, timeHorizon |-> "medium"],
     [id |-> "learn-experiment", category |-> "LEARNING",
      requiredGenes |-> << [gene |-> "uncertainty_tolerance", min |-> 50], [gene |-> "metacognition", min |-> 40], [gene |-> "strategy_evaluation", min |-> 50] >>,
      requiredTools |-> << "inference" >>,
      riskLevel |-> 40, complexity |-> 70, typicalPayoff |-> -100, timeHorizon |-> "medium"],
     [id |-> "defense-suspicious", category |-> "DEFENSE",
      requiredGenes |-> << [gene |-> "deception_detection", min |-> 60], [gene |-> "trust_default", min |-> 20], [gene |-> "trust_update_rate", min |-> 70] >>,
      requiredTools |-> <<  >>,
      riskLevel |-> 20, complexity |-> 30, typicalPayoff |-> 0, timeHorizon |-> "immediate"],
     [id |-> "defense-verify", category |-> "DEFENSE",
      requiredGenes |-> << [gene |-> "metacognition", min |-> 50], [gene |-> "uncertainty_tolerance", min |-> 30], [gene |-> "strategy_evaluation", min |-> 50] >>,
      requiredTools |-> << "inference" >>,
      riskLevel |-> 20, complexity |-> 50, typicalPayoff |-> -50, timeHorizon |-> "immediate"],
     [id |-> "defense-isolate", category |-> "DEFENSE",
      requiredGenes |-> << [gene |-> "acute_stress_response", min |-> 50], [gene |-> "trust_default", min |-> 20], [gene |-> "agent_cooperation", min |-> 20] >>,
      requiredTools |-> <<  >>,
      riskLevel |-> 20, complexity |-> 20, typicalPayoff |-> 0, timeHorizon |-> "short"]
  >>

GenesisGenes ==
  <<
     [name |-> "basal_metabolic_rate", domain |-> "METABOLISM"],
     [name |-> "inference_efficiency", domain |-> "METABOLISM"],
     [name |-> "dormancy_capability", domain |-> "DORMANCY"],
     [name |-> "starvation_resistance", domain |-> "STRESS_RESPONSE"],
     [name |-> "energy_reserve_ratio", domain |-> "RESOURCE_MANAGEMENT"],
     [name |-> "market_perception", domain |-> "PERCEPTION"],
     [name |-> "social_perception", domain |-> "PERCEPTION"],
     [name |-> "working_memory_capacity", domain |-> "MEMORY"],
     [name |-> "pattern_recognition", domain |-> "COGNITION"],
     [name |-> "uncertainty_tolerance", domain |-> "RISK_ASSESSMENT"],
     [name |-> "metacognition", domain |-> "SELF_MODEL"],
     [name |-> "learning_rate", domain |-> "LEARNING"],
     [name |-> "risk_appetite", domain |-> "RISK_ASSESSMENT"],
     [name |-> "time_preference", domain |-> "RESOURCE_MANAGEMENT"],
     [name |-> "debt_tolerance", domain |-> "RISK_ASSESSMENT"],
     [name |-> "opportunism", domain |-> "INCOME_STRATEGY"],
     [name |-> "negotiation_intensity", domain |-> "TRADING"],
     [name |-> "return_expectation_bias", domain |-> "RISK_ASSESSMENT"],
     [name |-> "defi_comprehension", domain |-> "ONCHAIN_OPERATION"],
     [name |-> "content_creation_skill", domain |-> "CONTENT_CREATION"],
     [name |-> "data_analysis_skill", domain |-> "DATA_ANALYSIS"],
     [name |-> "api_discovery", domain |-> "API_UTILIZATION"],
     [name |-> "social_media_skill", domain |-> "SOCIAL_MEDIA"],
     [name |-> "platform_migration", domain |-> "ADAPTATION"],
     [name |-> "tool_adaptation_speed", domain |-> "ADAPTATION"],
     [name |-> "agent_cooperation", domain |-> "COOPERATION"],
     [name |-> "trust_default", domain |-> "TRUST_MODEL"],
     [name |-> "trust_update_rate", domain |-> "TRUST_MODEL"],
     [name |-> "signal_honesty", domain |-> "COMMUNICATION"],
     [name |-> "deception_detection", domain |-> "COMMUNICATION"],
     [name |-> "kin_recognition", domain |-> "COOPERATION"],
     [name |-> "altruism_radius", domain |-> "COOPERATION"],
     [name |-> "mate_selectivity", domain |-> "MATE_SELECTION"],
     [name |-> "offspring_investment", domain |-> "PARENTAL_INVESTMENT"],
     [name |-> "r_k_strategy", domain |-> "PARENTAL_INVESTMENT"],
     [name |-> "breeding_timing_sense", domain |-> "MATE_SELECTION"],
     [name |-> "human_hiring_tendency", domain |-> "HUMAN_HIRING"],
     [name |-> "human_service_evaluation", domain |-> "HUMAN_EVALUATION"],
     [name |-> "human_cost_sensitivity", domain |-> "HUMAN_HIRING"],
     [name |-> "acute_stress_response", domain |-> "STRESS_RESPONSE"],
     [name |-> "novelty_seeking", domain |-> "ADAPTATION"]
  >>

\* ------------------------------------------------------------------------
\* Strategy filter (src/unnamed/part_008, lines 437-856).  Tolerances,
\* genomeMatch, estimatedSuccess and priority are in 1/10000; NaN is the
\* value JavaScript arithmetic gives when a string enters a product.
\* ------------------------------------------------------------------------
NaN == -1000000000

\* geneExpression.get(name) of the lookup map (a later gene of the same name
\* overwrites an earlier one); 0 when the genome has no such gene.
RECURSIVE GeneExpression(_, _, _)
GeneExpression(genes, name, i) ==
  IF i = 0 THEN 0
  ELSE IF genes[i].name = name THEN genes[i].expressedValue
  ELSE GeneExpression(genes, name, i - 1)

\* domainExpression.get(domain): the largest expressed value of the domain.
RECURSIVE DomainExpression(_, _, _)
DomainExpression(genes, domain, i) ==
  IF i = 0 THEN 0
  ELSE LET rest == DomainExpression(genes, domain, i - 1)
       IN IF genes[i].domain = domain THEN Max(rest, genes[i].expressedValue) ELSE rest

\* x || d
OrDefault(x, d) == IF x = 0 THEN d ELSE x

calculateRiskTolerance(genes) ==
  LET n == Len(genes)
      riskAppetite == OrDefault(GeneExpression(genes, "risk_appetite", n), 50)
      uncertaintyTolerance == OrDefault(GeneExpression(genes, "uncertainty_tolerance", n), 50)
      stressResponse == OrDefault(GeneExpression(genes, "acute_stress_response", n), 50)
      riskAssessment == OrDefault(DomainExpression(genes, "RISK_ASSESSMENT", n), 50)
  IN Max(1000, Min(9000, riskAppetite * 40 + uncertaintyTolerance * 30
                         + (100 - stressResponse) * 20 + riskAssessment * 10))

calculateComplexityTolerance(genes) ==
  LET n == Len(genes)
      workingMemory == OrDefault(GeneExpression(genes, "working_memory_capacity", n), 50)
      metacognition == OrDefault(GeneExpression(genes, "metacognition", n), 30)
      learningRate == OrDefault(GeneExpression(genes, "learning_rate", n), 50)
  IN Max(2000, Min(9000, workingMemory * 50 + metacognition * 30 + learningRate * 20))

calculateSocialOrientation(genes) ==
  LET n == Len(genes)
      cooperation == OrDefault(GeneExpression(genes, "agent_cooperation", n), 50)
      trustDefault == OrDefault(GeneExpression(genes, "trust_default", n), 50)
      socialDomain == OrDefault(DomainExpression(genes, "COOPERATION", n), 30)
  IN Max(0, Min(10000, cooperation * 40 + trustDefault * 40 + socialDomain * 20))

\* actualValue < minValue * 0.8 for some required gene
checkGeneRequirements(strategy, genes) ==
  \A k \in 1..Len(strategy.requiredGenes) :
     ~(GeneExpression(genes, strategy.requiredGenes[k].gene, Len(genes)) * 10
         < strategy.requiredGenes[k].min * 8)

checkToolAvailability(strategy, perception) ==
  \A k \in 1..Len(strategy.requiredTools) :
     strategy.requiredTools[k] \in perception.tools

\* balance - netCost < 7 * totalMetabolicCost outside SURVIVAL; runway
\* (usdc / dailyBurnRate) against 14 and 7 days.
checkResourceAvailability(strategy, perception) ==
  LET netCost == IF strategy.typicalPayoff < 0 THEN (0 - strategy.typicalPayoff) * 10000 ELSE 0
      minimumReserve == perception.genome.totalMetabolicCost * 7
  IN /\ ~(perception.balance.usdc - netCost < minimumReserve
          /\ strategy.category # "SURVIVAL")
     /\ ~(strategy.timeHorizon = "long"
          /\ perception.balance.usdc < 14 * perception.balance.dailyBurnRate)
     /\ ~(strategy.timeHorizon = "medium"
          /\ perception.balance.usdc < 7 * perception.balance.dailyBurnRate)

\* Sum over the required genes of min(1, actual / max(0.1, min)) * min, and
\* of min: with every minimum at least 0.1 the summand is min(min, actual).
RECURSIVE MatchScore(_, _, _)
MatchScore(strategy, genes, k) ==
  IF k = 0 THEN 0
  ELSE LET r == strategy.requiredGenes[k]
           actual == GeneExpression(genes, r.gene, Len(genes))
       IN (IF actual * 100 >= Max(10, r.min) * 100 THEN r.min
           ELSE (actual * r.min) \div Max(10, r.min))
          + MatchScore(strategy, genes, k - 1)

RECURSIVE MatchWeight(_, _)
MatchWeight(strategy, k) ==
  IF k = 0 THEN 0 ELSE strategy.requiredGenes[k].min + MatchWeight(strategy, k - 1)

calculateGenomeMatch(strategy, genes) ==
  IF Len(strategy.requiredGenes) = 0 THEN 5000
  ELSE LET w == MatchWeight(strategy, Len(strategy.requiredGenes))
       IN IF w > 0
          THEN (MatchScore(strategy, genes, Len(strategy.requiredGenes)) * 10000) \div w
          ELSE 5000

\* Math.max(lo, Math.min(hi, x)), which is NaN for NaN
Clamp(lo, hi, x) == IF x = NaN THEN NaN ELSE Max(lo, Min(hi, x))

\* perception.market.riskLevel is one of the strings 'low', 'medium', 'high'
\* (types.ts line 25): marketRisk * 0.3 is NaN, and so is the probability of
\* every INCOME strategy.
estimateSuccess(strategy, genomeMatch, perception) ==
  LET base == (genomeMatch * 6) \div 10
      market == IF strategy.category = "INCOME" THEN NaN ELSE base
      toolCount == Len(strategy.requiredTools)
      availableTools == Cardinality({k \in 1..toolCount :
                                       strategy.requiredTools[k] \in perception.tools})
      toolFactor == 5000 + (5000 * availableTools) \div Max(1, toolCount)
      withTools == IF market = NaN THEN NaN ELSE (market * toolFactor) \div 10000
      experience == Min(2000, perception.memory.similarAttempts * 200)
  IN Clamp(1000, 9500, IF withTools = NaN THEN NaN ELSE withTools + experience)

calculatePriority(strategy, genomeMatch, estimatedSuccess, perception) ==
  IF estimatedSuccess = NaN THEN NaN
  ELSE
    LET usdc == perception.balance.usdc
        burn == perception.balance.dailyBurnRate
        urgency ==
          CASE strategy.category = "SURVIVAL" ->
                 IF usdc <= burn THEN 3000 ELSE (3000 * burn) \div usdc
            [] strategy.category = "DEFENSE" ->
                 IF perception.environment.recentDeceptions > 0 THEN 2000 ELSE 0
            [] strategy.category = "INCOME" ->
                 IF usdc < 7 * burn THEN 2000 ELSE 1000
            [] strategy.category = "REPRODUCTION" ->
                 IF perception.environment.daysThriving > 14 THEN 1000 ELSE 0
            [] OTHER -> 0
        base == (genomeMatch * 3) \div 10 + (estimatedSuccess * 3) \div 10 + urgency
        adjusted == (base * (10000 - strategy.riskLevel * 30)) \div 10000
        payoff == IF strategy.typicalPayoff > 0 THEN Min(1000, strategy.typicalPayoff) ELSE 0
    IN Clamp(0, 10000, adjusted + payoff)

\* The checks of filterStrategies without check 6, the emergency override.
PassesFilterWithoutEmergencyOverride(strategy, perception) ==
  LET genes == perception.genome.genes
  IN /\ checkGeneRequirements(strategy, genes)
     /\ checkToolAvailability(strategy, perception)
     /\ ~(strategy.riskLevel * 200 > calculateRiskTolerance(genes) * 3)
     /\ ~(strategy.complexity * 100 > calculateComplexityTolerance(genes))
     /\ checkResourceAvailability(strategy, perception)
     /\ (strategy.category = "SOCIAL"
           => ~(calculateSocialOrientation(genes) < 3000))

\* The seven checks of filterStrategies, in order.
PassesFilter(strategy, perception) ==
  LET genes == perception.genome.genes
  IN /\ checkGeneRequirements(strategy, genes)
     /\ checkToolAvailability(strategy, perception)
     /\ ~(strategy.riskLevel * 200 > calculateRiskTolerance(genes) * 3)
     /\ ~(strategy.complexity * 100 > calculateComplexityTolerance(genes))
     /\ checkResourceAvailability(strategy, perception)
     /\ (perception.environment.currentMode = "emergency"
           => /\ strategy.category \in {"SURVIVAL", "DEFENSE"}
              /\ ~(strategy.riskLevel > 30))
     /\ (strategy.category = "SOCIAL"
           => ~(calculateSocialOrientation(genes) < 3000))

FilteredStrategy(strategy, perception) ==
  LET genomeMatch == calculateGenomeMatch(strategy, perception.genome.genes)
      estimatedSuccess == estimateSuccess(strategy, genomeMatch, perception)
  IN [id |-> strategy.id, category |-> strategy.category,
      riskLevel |-> strategy.riskLevel,
      genomeMatch |-> genomeMatch, estimatedSuccess |-> estimatedSuccess,
      priority |-> calculatePriority(strategy, genomeMatch, estimatedSuccess, perception)]

\* The filtered array before the sort: ALL_STRATEGIES order.
RECURSIVE Unsorted(_, _)
Unsorted(perception, i) ==
  IF i > Len(ALL_STRATEGIES) THEN << >>
  ELSE (IF PassesFilter(ALL_STRATEGIES[i], perception)
        THEN << FilteredStrategy(ALL_STRATEGIES[i], perception) >>
        ELSE << >>)
       \o Unsorted(perception, i + 1)

\* filtered.sort((a, b) => b.priority - a.priority), as the sort of the
\* JavaScript engine runs it on an array of fewer than 64 elements: the
\* leading run is found (and reversed when strictly descending under the
\* comparator), then the rest is placed by binary insertion.  A comparator
\* result of NaN counts as 0.
Compare(x, y) ==
  IF x.priority = NaN \/ y.priority = NaN THEN 0 ELSE y.priority - x.priority

RECURSIVE RunLength(_, _, _)
RunLength(a, idx, isDescending) ==
  IF idx > Len(a) THEN idx - 1
  ELSE LET order == Compare(a[idx], a[idx - 1])
       IN IF (isDescending /\ order >= 0) \/ (~isDescending /\ order < 0)
          THEN idx - 1
          ELSE RunLength(a, idx + 1, isDescending)

Reverse(a) == [k \in 1..Len(a) |-> a[Len(a) + 1 - k]]

CountAndMakeRun(a) ==
  LET isDescending == Compare(a[2], a[1]) < 0
      runLength == RunLength(a, 3, isDescending)
  IN [array |-> IF isDescending
                THEN Reverse(SubSeq(a, 1, runLength)) \o SubSeq(a, runLength + 1, Len(a))
                ELSE a,
      runLength |-> runLength]

\* left and right are 0-based positions, as in the engine.
RECURSIVE BinarySearch(_, _, _, _)
BinarySearch(a, pivot, left, right) ==
  IF left >= right THEN left
  ELSE LET mid == left + (right - left) \div 2
       IN IF Compare(pivot, a[mid + 1]) < 0
          THEN BinarySearch(a, pivot, left, mid)
          ELSE BinarySearch(a, pivot, mid + 1, right)

RECURSIVE BinaryInsertionSort(_, _)
BinaryInsertionSort(a, start) ==
  IF start >= Len(a) THEN a
  ELSE LET pivot == a[start + 1]
           left == BinarySearch(a, pivot, 0, start)
       IN BinaryInsertionSort(
            SubSeq(a, 1, left) \o << pivot >> \o SubSeq(a, left + 1, start)
              \o SubSeq(a, start + 2, Len(a)),
            start + 1)

ArraySort(a) ==
  IF Len(a) < 2 THEN a
  ELSE LET run == CountAndMakeRun(a)
       IN BinaryInsertionSort(run.array, run.runLength)

\* filterStrategies: the filtered list, sorted by priority.
filterStrategies(perception) == ArraySort(Unsorted(perception, 1))

\* getRecommendedStrategies(filterResult, count)
getRecommendedStrategies(filtered, count) ==
  SubSeq(filtered, 1, Min(count, Len(filtered)))

RecommendedCount == 7

\* ------------------------------------------------------------------------
\* DecisionEngine
\* ------------------------------------------------------------------------
minDecisionInterval == 60000
maxDeliberationTime == 30000

\* Wall-clock time advances in steps of TimeStep milliseconds, from StartTime.
TimeStep == maxDeliberationTime
StartTime == minDecisionInterval

\* The expressed genome of a perception: every gene of the genesis gene set
\* that the filter reads, expressed at the same level, but for the silenced
\* genes, which are not expressed.
GenomeAt(level, silenced) ==
  [k \in 1..Len(GenesisGenes) |->
     [name |-> GenesisGenes[k].name, domain |-> GenesisGenes[k].domain,
      expressedValue |-> IF GenesisGenes[k].name \in silenced THEN 0 ELSE level]]

calculateMarketRisk(mode) ==
  IF mode = "EMERGENCY" THEN "high"
  ELSE IF mode = "LOW_POWER" THEN "medium" ELSE "low"

\* buildPerception: the part of the perception the engine and the filter read.
buildPerception(level, silenced, mode, usdc, cost) ==
  [genome |-> [genes |-> GenomeAt(level, silenced), totalMetabolicCost |-> cost],
   balance |-> [usdc |-> usdc, dailyBurnRate |-> cost],
   environment |-> [currentMode |-> ToLowerCase(mode), recentDeceptions |-> 0,
                    daysThriving |-> 0],
   market |-> [riskLevel |-> calculateMarketRisk(mode)],
   tools |-> {"wallet", "dex", "web", "network"}
             \cup (IF mode # "HIBERNATION" THEN {"inference"} ELSE {})
             \cup (IF mode = "NORMAL" THEN {"human"} ELSE {}),
   memory |-> [similarAttempts |-> 0]]

\* The perceptions decide() is called with.
PerceptionInputs ==
  << buildPerception(100, {}, "NORMAL", 10000000, 10000),
     buildPerception(100, {}, "EMERGENCY", 1500000, 10000),
     buildPerception(0, {}, "NORMAL", 10000000, 10000),
     buildPerception(100, {"inference_efficiency", "platform_migration",
                           "starvation_resistance"},
                     "NORMAL", 10000000, 10000) >>

\* The replies of the LLM port: the STRATEGY_ID line and the clamped
\* CONFIDENCE / 100 (0.5 when the line is absent).
ReplyInputs ==
  { [strategyId |-> "survive-minimal", confidence |-> 9000],
    [strategyId |-> "income-yield", confidence |-> 3000],
    [strategyId |-> "no-such-strategy", confidence |-> 5000] }

mapStrategyToAction(id) ==
  CASE id \in {"survive-minimal", "survive-dormancy", "defense-suspicious",
               "defense-isolate"} -> "ENTER_DORMANCY"
    [] id \in {"survive-optimize", "defense-verify"} -> "THINK_LOCAL"
    [] id = "survive-migrate" -> "MIGRATE"
    [] id = "income-arbitrage" -> "SWAP"
    [] id = "income-yield" -> "STAKE"
    [] id = "income-content" -> "POST"
    [] id \in {"income-analysis", "social-cooperate", "learn-imitate"} -> "SEND_MESSAGE"
    [] id \in {"income-services", "learn-explore"} -> "FETCH"
    [] id = "income-human" -> "HIRE_HUMAN"
    [] id \in {"social-info-trade", "social-reputation"} -> "BROADCAST"
    [] id \in {"repro-selective", "repro-opportunistic", "repro-kin"} -> "PROPOSE_MATING"
    [] id = "learn-experiment" -> "THINK_PREMIUM"
    [] OTHER -> "THINK_LOCAL"

createEmergencyDecision ==
  [selectedStrategy |-> "emergency-survival", selectedAction |-> "ENTER_DORMANCY",
   confidence |-> 3000, reasoning |-> "No viable strategies available"]

createFallbackDecision(fallbackStrategy) ==
  [selectedStrategy |-> fallbackStrategy.id,
   selectedAction |-> mapStrategyToAction(fallbackStrategy.id),
   confidence |-> 4000, reasoning |-> "LLM decision failed"]

\* availableStrategies.find(s => s.id === strategyId), else the first one
parseDecision(reply, availableStrategies) ==
  LET found == {k \in 1..Len(availableStrategies) :
                  availableStrategies[k].id = reply.strategyId}
      selectedStrategy == IF found = {} THEN availableStrategies[1]
                          ELSE availableStrategies[CHOOSE k \in found :
                                                     \A j \in found : k <= j]
  IN [selectedStrategy |-> selectedStrategy.id,
      selectedAction |-> mapStrategyToAction(selectedStrategy.id),
      confidence |-> Max(0, Min(10000, reply.confidence)),
      reasoning |-> "llm"]

NoDecision == [selectedStrategy |-> "none", selectedAction |-> "none",
               confidence |-> 0, reasoning |-> "none"]

NoCall == [pc |-> "idle", perception |-> 0, wakeAt |-> 0, arrivedAt |-> 0,
           passedAt |-> 0, llmAt |-> 0, response |-> "none",
           decision |-> NoDecision]

\* decide(), lines 77-78, for each perception of PerceptionInputs.
RECURSIVE AvailableUpTo(_)
AvailableUpTo(n) ==
  IF n = 0 THEN << >>
  ELSE Append(AvailableUpTo(n - 1),
              getRecommendedStrategies(filterStrategies(PerceptionInputs[n]),
                                       RecommendedCount))

AvailableTable == AvailableUpTo(Len(PerceptionInputs))

AvailableStrategies(p) == AvailableTable[p]


\* decide(), lines 74-98: the rate limiter is passed, the strategies are
\* filtered, and either the emergency decision is returned or the LLM is called.
PassRateLimiter(k, call) ==
  /\ lastDecisionTime' = dnow
  /\ IF Len(AvailableStrategies(call.perception)) = 0
     THEN calls' = [calls EXCEPT ![k] = [call EXCEPT !.pc = "done", !.passedAt = dnow,
                                           !.decision = createEmergencyDecision]]
     ELSE calls' = [calls EXCEPT ![k] = [call EXCEPT !.pc = "llm", !.passedAt = dnow,
                                           !.llmAt = dnow]]

\* decide(perception) is called (lines 67-73).
Decide(k, p) ==
  /\ calls[k].pc = "idle"
  /\ \A j \in 1..(k - 1) : calls[j].pc # "idle"
  /\ LET call == [NoCall EXCEPT !.perception = p, !.arrivedAt = dnow]
         timeSinceLastDecision == dnow - lastDecisionTime
     IN IF timeSinceLastDecision < minDecisionInterval
        THEN /\ calls' = [calls EXCEPT ![k] =
                            [call EXCEPT !.pc = "sleep",
                               !.wakeAt = dnow + (minDecisionInterval - timeSinceLastDecision)]]
             /\ UNCHANGED lastDecisionTime
        ELSE PassRateLimiter(k, call)
  /\ UNCHANGED <<decisionLog, dnow>>
  /\ UNCHANGED nonDecVars

\* The sleep of line 72 ends: its timer fires no earlier than asked.
SleepReturn(k) ==
  /\ calls[k].pc = "sleep"
  /\ dnow >= calls[k].wakeAt
  /\ PassRateLimiter(k, calls[k])
  /\ UNCHANGED <<decisionLog, dnow>>
  /\ UNCHANGED nonDecVars

\* llmProvider.think resolves (lines 101-115).
LLMResolve(k, reply) ==
  /\ calls[k].pc = "llm"
  /\ LET decision == parseDecision(reply, AvailableStrategies(calls[k].perception))
     IN /\ calls' = [calls EXCEPT ![k].pc = "done", ![k].decision = decision,
                                     ![k].response = reply.strategyId]
        /\ decisionLog' = Append(decisionLog, decision)
  /\ UNCHANGED <<lastDecisionTime, dnow>>
  /\ UNCHANGED nonDecVars

\* llmProvider.think rejects (lines 95-98).
LLMReject(k) ==
  /\ calls[k].pc = "llm"
  /\ calls' = [calls EXCEPT ![k].pc = "done",
                 ![k].decision = createFallbackDecision(
                                   AvailableStrategies(calls[k].perception)[1])]
  /\ UNCHANGED <<lastDecisionTime, decisionLog, dnow>>
  /\ UNCHANGED nonDecVars

\* Wall-clock time passes.
DTick ==
  /\ dnow < StartTime + MaxTicks * TimeStep
  /\ dnow' = dnow + TimeStep
  /\ UNCHANGED <<lastDecisionTime, decisionLog, calls>>
  /\ UNCHANGED nonDecVars

\* ------------------------------------------------------------------------
\* ExpressionCache (src/src/genome/expressionCache.ts).  A cache key is the
\* pair of its two parts; an environment hash is the tuple of the quantised
\* factors that the code joins and digests.  A result names the computation
\* that produced it: the genome and the environment handed to computeFn.
\* ------------------------------------------------------------------------
\* config.maxSize of the modelled cache
maxSize == 2
defaultTTL == 60000

\* The wall clock of the cache advances in steps of CacheTimeStep ms.
CacheTimeStep == 2 * defaultTTL

\* A genome hash is a sha256 hex digest: HashLength characters.
HashLength == 64
GenomePartLength == 16

HashOf(d) == [i \in 1..HashLength |-> d]

StarvingEnvironment ==
  [balanceUSDC |-> 10000000, daysSinceLastIncome |-> 0, daysStarving |-> 6,
   daysThriving |-> 0, recentDeceptions |-> 0, cooperationCount |-> 0,
   stressLevel |-> 0, currentMode |-> "normal"]

\* The genomes the cache is asked about.  The second is the first after
\* updateEpigenome, which keeps meta (and with it meta.genomeHash).
CacheGenomes ==
  << [genomeHash |-> HashOf(1), genes |-> Genes, epigenome |-> << >>],
     [genomeHash |-> HashOf(1), genes |-> Genes,
      epigenome |-> updateEpigenome(Genes, << >>, Generation, StarvingEnvironment)],
     [genomeHash |-> HashOf(2), genes |-> SubSeq(Genes, 2, 3), epigenome |-> << >>] >>

\* The environments the cache is asked about: 2 days starving, 3 days
\* starving, and 2 days starving under high stress.
CacheEnvironments ==
  << [StarvingEnvironment EXCEPT !.daysStarving = 4],
     StarvingEnvironment,
     [StarvingEnvironment EXCEPT !.daysStarving = 4, !.stressLevel = 8] >>

\* What computeFn computes for a genome: expressGenome.  No gene of the
\* repository carries an activation condition that evaluateCondition parses,
\* so the expression does not depend on the environment.
RECURSIVE ExpressionUpTo(_)
ExpressionUpTo(n) ==
  IF n = 0 THEN << >>
  ELSE Append(ExpressionUpTo(n - 1),
              expressGenome(CacheGenomes[n].genes, CacheGenomes[n].epigenome))

ExpressionTable == ExpressionUpTo(Len(CacheGenomes))

Expression(result) == ExpressionTable[result.g]

hashEnvironment(env) ==
  << env.currentMode,
     env.balanceUSDC \div 10000000,
     env.daysStarving \div 4,
     env.daysThriving \div 14,
     IF env.stressLevel > 7 THEN "high_stress"
     ELSE IF env.stressLevel > 3 THEN "med_stress" ELSE "low_stress",
     IF env.recentDeceptions > 0 THEN "deceived" ELSE "trusted" >>

generateCacheKey(dynGenome, env) ==
  [genomePart |-> SubSeq(dynGenome.genomeHash, 1,
                         Min(GenomePartLength, Len(dynGenome.genomeHash))),
   envPart |-> hashEnvironment(env)]

\* key.startsWith(prefix), for a prefix of hexadecimal digits: the key is
\* the genome part, a colon and the environment part.
StartsWith(key, prefix) ==
  /\ Len(prefix) <= Len(key.genomePart)
  /\ SubSeq(key.genomePart, 1, Len(prefix)) = prefix

\* A Map, in insertion order.
MapHas(c, key) == \E i \in 1..Len(c) : c[i].key = key
MapGet(c, key) == c[CHOOSE i \in 1..Len(c) : c[i].key = key]
MapDelete(c, key) == SelectSeq(c, LAMBDA x : x.key # key)
MapSet(c, entry) ==
  IF MapHas(c, entry.key)
  THEN [i \in 1..Len(c) |-> IF c[i].key = entry.key THEN entry ELSE c[i]]
  ELSE Append(c, entry)

removeFromAccessOrder(ao, key) == SelectSeq(ao, LAMBDA k : k # key)
updateAccessOrder(ao, key) == Append(removeFromAccessOrder(ao, key), key)
addToAccessOrder(ao, key) ==
  IF \E i \in 1..Len(ao) : ao[i] = key THEN ao ELSE Append(ao, key)

NoResult == [g |-> 0, e |-> 0]
NoEvict == [happened |-> FALSE, evictedAccess |-> 0, oldestAccess |-> 0]

\* The smallest lastAccess of the entries of c.
OldestAccess(c) ==
  CHOOSE a \in {c[i].lastAccess : i \in 1..Len(c)} :
    \A i \in 1..Len(c) : a <= c[i].lastAccess

\* get(genome, environment) on the cache c with access order ao, as the
\* n-th access: the new cache, the new order and the result.
get(c, ao, n, dynGenome, environment) ==
  LET key == generateCacheKey(dynGenome, environment)
  IN IF ~MapHas(c, key)
     THEN [hit |-> FALSE, cache |-> c, accessOrder |-> ao, accessCount |-> n,
           result |-> NoResult]
     ELSE LET entry == MapGet(c, key)
          IN IF cacheNow - entry.timestamp > entry.ttl
             THEN [hit |-> FALSE, cache |-> MapDelete(c, key),
                   accessOrder |-> removeFromAccessOrder(ao, key),
                   accessCount |-> n, result |-> NoResult]
             ELSE [hit |-> TRUE,
                   cache |-> MapSet(c, [entry EXCEPT !.hitCount = @ + 1,
                                                     !.lastAccess = n + 1]),
                   accessOrder |-> updateAccessOrder(ao, key),
                   accessCount |-> n + 1, result |-> entry.result]

\* An eviction that deletes the entry and leaves the order list as it is.
evictLRUWithoutShift(c, ao) ==
  IF Len(ao) = 0 THEN [cache |-> c, accessOrder |-> ao, evict |-> NoEvict]
  ELSE [cache |-> MapDelete(c, ao[1]), accessOrder |-> ao, evict |-> NoEvict]

\* evictLRU
evictLRU(c, ao) ==
  IF Len(ao) = 0 THEN [cache |-> c, accessOrder |-> ao, evict |-> NoEvict]
  ELSE [cache |-> MapDelete(c, ao[1]), accessOrder |-> Tail(ao),
        evict |-> IF MapHas(c, ao[1])
                  THEN [happened |-> TRUE,
                        evictedAccess |-> MapGet(c, ao[1]).lastAccess,
                        oldestAccess |-> OldestAccess(c)]
                  ELSE NoEvict]

\* A set that stores the entry without making room for it.
setWithoutEviction(c, ao, n, dynGenome, environment, result) ==
  LET key == generateCacheKey(dynGenome, environment)
      entry == [key |-> key, result |-> result, timestamp |-> cacheNow,
                environmentHash |-> hashEnvironment(environment),
                ttl |-> defaultTTL, hitCount |-> 0,
                genomeHash |-> dynGenome.genomeHash, lastAccess |-> n + 1]
  IN [cache |-> MapSet(c, entry),
      accessOrder |-> addToAccessOrder(ao, key),
      accessCount |-> n + 1, evict |-> NoEvict]

\* set(genome, environment, result)
set(c, ao, n, dynGenome, environment, result) ==
  LET key == generateCacheKey(dynGenome, environment)
      room == IF Len(c) >= maxSize /\ ~MapHas(c, key)
              THEN evictLRU(c, ao)
              ELSE [cache |-> c, accessOrder |-> ao, evict |-> NoEvict]
      entry == [key |-> key, result |-> result, timestamp |-> cacheNow,
                environmentHash |-> hashEnvironment(environment),
                ttl |-> defaultTTL, hitCount |-> 0,
                genomeHash |-> dynGenome.genomeHash, lastAccess |-> n + 1]
  IN [cache |-> MapSet(room.cache, entry),
      accessOrder |-> addToAccessOrder(room.accessOrder, key),
      accessCount |-> n + 1, evict |-> room.evict]

\* ------------------------------------------------------------------------
\* cachedExpressGenome, invalidate, cleanupExpired
\* ------------------------------------------------------------------------
NoExprCall == [pc |-> "idle", g |-> 0, e |-> 0, fromCache |-> FALSE,
               result |-> NoResult]

\* cachedExpressGenome(genome, environment, computeFn) up to its await:
\* a hit returns the cached result, a miss calls computeFn.
CachedExpressCall(r, g, e) ==
  /\ exprCalls[r].pc = "idle"
  /\ \A q \in 1..(r - 1) : exprCalls[q].pc # "idle"
  /\ LET got == get(cache, accessOrder, accessCount,
                    CacheGenomes[g], CacheEnvironments[e])
     IN /\ cache' = got.cache
        /\ accessOrder' = got.accessOrder
        /\ accessCount' = got.accessCount
        /\ exprCalls' = [exprCalls EXCEPT ![r] =
                           IF got.hit
                           THEN [pc |-> "done", g |-> g, e |-> e,
                                 fromCache |-> TRUE, result |-> got.result]
                           ELSE [pc |-> "compute", g |-> g, e |-> e,
                                 fromCache |-> FALSE, result |-> NoResult]]
  /\ UNCHANGED <<pendingComputations, cacheNow, batches, lastEvict, lastInvalidate>>
  /\ UNCHANGED nonCacheVars

\* The genomes and environments cachedExpressGenome is called with.
ExpressInputs ==
  { [g |-> 1, e |-> 1], [g |-> 2, e |-> 1], [g |-> 3, e |-> 1], [g |-> 1, e |-> 3] }

\* computeFn resolves: the result is stored and returned (lines 382-387).
CachedExpressResolve(r) ==
  /\ exprCalls[r].pc = "compute"
  /\ LET result == [g |-> exprCalls[r].g, e |-> exprCalls[r].e]
         put == set(cache, accessOrder, accessCount,
                    CacheGenomes[exprCalls[r].g], CacheEnvironments[exprCalls[r].e],
                    result)
     IN /\ cache' = put.cache
        /\ accessOrder' = put.accessOrder
        /\ accessCount' = put.accessCount
        /\ lastEvict' = IF put.evict.happened THEN put.evict ELSE lastEvict
        /\ exprCalls' = [exprCalls EXCEPT ![r].pc = "done", ![r].result = result]
  /\ UNCHANGED <<pendingComputations, cacheNow, batches, lastInvalidate>>
  /\ UNCHANGED nonCacheVars

\* The criteria invalidate is called with: the fields supplied, and their
\* values.
InvalidateInputs ==
  { [supplied |-> {"genomeHash"}, genomeHash |-> HashOf(1), olderThan |-> 0,
     lowHitCount |-> 0],
    [supplied |-> {"genomeHash"}, genomeHash |-> SubSeq(HashOf(1), 1, 8),
     olderThan |-> 0, lowHitCount |-> 0],
    [supplied |-> {"olderThan"}, genomeHash |-> << >>, olderThan |-> defaultTTL,
     lowHitCount |-> 0],
    [supplied |-> {"lowHitCount"}, genomeHash |-> << >>, olderThan |-> 0,
     lowHitCount |-> 1] }

\* shouldInvalidate of lines 134-146: a criterion counts when it is truthy.
ShouldInvalidate(entry, criteria) ==
  \/ /\ "genomeHash" \in criteria.supplied
     /\ Len(criteria.genomeHash) > 0
     /\ StartsWith(entry.key, criteria.genomeHash)
  \/ /\ "olderThan" \in criteria.supplied
     /\ criteria.olderThan # 0
     /\ cacheNow - entry.timestamp > criteria.olderThan
  \/ /\ "lowHitCount" \in criteria.supplied
     /\ criteria.lowHitCount # 0
     /\ entry.hitCount < criteria.lowHitCount

NoInvalidate == [count |-> 0, criteria |-> [supplied |-> {}, genomeHash |-> << >>,
                                                  olderThan |-> 0, lowHitCount |-> 0],
                 at |-> 0, before |-> << >>, after |-> << >>, returned |-> 0]

\* invalidate(criteria)
Invalidate(criteria) ==
  /\ lastInvalidate.count < MaxInvalidations
  /\ Len(cache) > 0
  /\ LET doomed == SelectSeq(cache, LAMBDA x : ShouldInvalidate(x, criteria))
         kept == SelectSeq(cache, LAMBDA x : ~ShouldInvalidate(x, criteria))
     IN /\ cache' = kept
        /\ accessOrder' = SelectSeq(accessOrder,
                                    LAMBDA k : \A i \in 1..Len(doomed) : doomed[i].key # k)
        /\ lastInvalidate' = [count |-> lastInvalidate.count + 1, criteria |-> criteria, at |-> cacheNow,
                              before |-> cache, after |-> kept,
                              returned |-> Len(doomed)]
  /\ UNCHANGED <<pendingComputations, cacheNow, exprCalls, batches, accessCount,
                 lastEvict>>
  /\ UNCHANGED nonCacheVars

Expired(entry) == cacheNow - entry.timestamp > entry.ttl

\* The cleanup interval fires: cleanupExpired.
CleanupExpired ==
  /\ \E i \in 1..Len(cache) : Expired(cache[i])
  /\ cache' = SelectSeq(cache, LAMBDA x : ~Expired(x))
  /\ accessOrder' = SelectSeq(accessOrder,
                              LAMBDA k : \A i \in 1..Len(cache) :
                                           cache[i].key = k => ~Expired(cache[i]))
  /\ UNCHANGED <<pendingComputations, cacheNow, exprCalls, batches, accessCount,
                 lastEvict, lastInvalidate>>
  /\ UNCHANGED nonCacheVars

\* prefetch(genome, environment, computeFn) up to its await (lines 161-175,
\* enablePrefetching being true): nothing is done for a key the cache holds,
\* expired or not; otherwise computeFn is called.
PrefetchCall(r, g, e) ==
  /\ exprCalls[r].pc = "idle"
  /\ \A q \in 1..(r - 1) : exprCalls[q].pc # "idle"
  /\ exprCalls' = [exprCalls EXCEPT ![r] =
                     [pc |-> IF MapHas(cache, generateCacheKey(CacheGenomes[g],
                                                               CacheEnvironments[e]))
                             THEN "prefetched" ELSE "prefetch",
                      g |-> g, e |-> e, fromCache |-> FALSE, result |-> NoResult]]
  /\ UNCHANGED <<cache, accessOrder, pendingComputations, cacheNow, batches,
                 accessCount, lastEvict, lastInvalidate>>
  /\ UNCHANGED nonCacheVars

\* The genomes and environments prefetch is called with.
PrefetchInputs == { [g |-> 1, e |-> 3], [g |-> 3, e |-> 1] }

\* computeFn of a prefetch resolves: the result is stored (lines 175-176).
PrefetchResolve(r) ==
  /\ exprCalls[r].pc = "prefetch"
  /\ LET result == [g |-> exprCalls[r].g, e |-> exprCalls[r].e]
         put == set(cache, accessOrder, accessCount,
                    CacheGenomes[exprCalls[r].g], CacheEnvironments[exprCalls[r].e],
                    result)
     IN /\ cache' = put.cache
        /\ accessOrder' = put.accessOrder
        /\ accessCount' = put.accessCount
        /\ lastEvict' = IF put.evict.happened THEN put.evict ELSE lastEvict
        /\ exprCalls' = [exprCalls EXCEPT ![r].pc = "prefetched"]
  /\ UNCHANGED <<pendingComputations, cacheNow, batches, lastInvalidate>>
  /\ UNCHANGED nonCacheVars

\* computeFn of a prefetch rejects: the catch of lines 177-180 logs.
PrefetchReject(r) ==
  /\ exprCalls[r].pc = "prefetch"
  /\ exprCalls' = [exprCalls EXCEPT ![r].pc = "prefetched"]
  /\ UNCHANGED <<cache, accessOrder, pendingComputations, cacheNow, batches,
                 accessCount, lastEvict, lastInvalidate>>
  /\ UNCHANGED nonCacheVars

\* clear()
Clear ==
  /\ cache' = << >>
  /\ accessOrder' = << >>
  /\ UNCHANGED <<pendingComputations, cacheNow, exprCalls, batches, accessCount,
                 lastEvict, lastInvalidate>>
  /\ UNCHANGED nonCacheVars

\* Wall-clock time passes.
CacheTick ==
  /\ cacheNow < MaxCacheTicks * CacheTimeStep
  /\ cacheNow' = cacheNow + CacheTimeStep
  /\ UNCHANGED <<cache, accessOrder, pendingComputations, exprCalls, batches,
                 accessCount, lastEvict, lastInvalidate>>
  /\ UNCHANGED nonCacheVars

\* ------------------------------------------------------------------------
\* BatchExpressionCache
\* ------------------------------------------------------------------------
\* generateKey of the batch cache: the whole genome hash and the JSON text of
\* mode, balance tier and whole days starving.
generateKey(dynGenome, env) ==
  [genomeHash |-> dynGenome.genomeHash, mode |-> env.currentMode,
   balance |-> env.balanceUSDC \div 10000000, starving |-> env.daysStarving \div 2]

NoBatchKey == [genomeHash |-> << >>, mode |-> "", balance |-> 0, starving |-> 0]

NoBatch == [pc |-> "idle", requests |-> << >>, results |-> << >>, waits |-> << >>,
            stale |-> FALSE]

\* The request lists getBatch is called with.
BatchInputs ==
  { << [g |-> 1, e |-> 1], [g |-> 1, e |-> 1] >>,
    << [g |-> 1, e |-> 1], [g |-> 1, e |-> 2] >>,
    << [g |-> 1, e |-> 3] >>,
    << [g |-> 1, e |-> 3], [g |-> 3, e |-> 1] >> }

\* The loop of lines 426-451 from request i on: st holds the cache, the
\* pending computations, and the results and awaited keys of the requests
\* already handled.
RECURSIVE BatchLoop(_, _, _)
BatchLoop(st, requests, i) ==
  IF i > Len(requests) THEN st
  ELSE LET dynGenome == CacheGenomes[requests[i].g]
           environment == CacheEnvironments[requests[i].e]
           key == generateKey(dynGenome, environment)
           got == get(st.cache, st.accessOrder, st.accessCount, dynGenome, environment)
           seen == [st EXCEPT !.cache = got.cache, !.accessOrder = got.accessOrder,
                              !.accessCount = got.accessCount]
       IN IF got.hit
          THEN BatchLoop([seen EXCEPT !.results = Append(@, got.result),
                                      !.waits = Append(@, NoBatchKey)],
                         requests, i + 1)
          ELSE IF \E p \in st.pending : p.key = key
          THEN BatchLoop([seen EXCEPT !.results = Append(@, NoResult),
                                      !.waits = Append(@, key)],
                         requests, i + 1)
          ELSE BatchLoop([seen EXCEPT !.results = Append(@, NoResult),
                                      !.waits = Append(@, key),
                                      !.pending = @ \cup {[key |-> key,
                                                           g |-> requests[i].g,
                                                           e |-> requests[i].e,
                                                           settled |-> "pending"]}],
                         requests, i + 1)

Settled(waits) == \A i \in 1..Len(waits) : waits[i] = NoBatchKey

\* Whether one of the awaited keys is that of a promise in pending that has
\* been rejected: pending.then(...) of line 437 then rejects as well.
AwaitsRejected(waits, pending) ==
  \E i \in 1..Len(waits) : \E p \in pending :
    p.key = waits[i] /\ p.settled = "rejected"

\* getBatch(requests, computeFn) up to its await.
GetBatch(b, requests) ==
  /\ batches[b].pc = "idle"
  /\ \A q \in 1..(b - 1) : batches[q].pc # "idle"
  /\ LET st == BatchLoop([cache |-> cache, accessOrder |-> accessOrder,
                          accessCount |-> accessCount,
                          pending |-> pendingComputations,
                          results |-> << >>, waits |-> << >>], requests, 1)
     IN /\ cache' = st.cache
        /\ accessOrder' = st.accessOrder
        /\ accessCount' = st.accessCount
        /\ pendingComputations' = st.pending
        /\ batches' = [batches EXCEPT ![b] =
                         [pc |-> IF AwaitsRejected(st.waits, pendingComputations)
                                 THEN "failed"
                                 ELSE IF Settled(st.waits) THEN "done" ELSE "waiting",
                          requests |-> requests, results |-> st.results,
                          waits |-> st.waits,
                          stale |-> AwaitsRejected(st.waits, pendingComputations)]]
  /\ UNCHANGED <<cacheNow, exprCalls, lastEvict, lastInvalidate>>
  /\ UNCHANGED nonCacheVars

\* A pending computation resolves (lines 442-447): the result is stored, the
\* pending entry deleted, and every request that awaits it receives the result.
BatchResolve(p) ==
  /\ p \in pendingComputations
  /\ p.settled = "pending"
  /\ LET result == [g |-> p.g, e |-> p.e]
         put == set(cache, accessOrder, accessCount,
                    CacheGenomes[p.g], CacheEnvironments[p.e], result)
         Deliver(batch) ==
           LET results == [i \in 1..Len(batch.waits) |->
                             IF batch.waits[i] = p.key THEN result
                             ELSE batch.results[i]]
               waits == [i \in 1..Len(batch.waits) |->
                           IF batch.waits[i] = p.key THEN NoBatchKey
                           ELSE batch.waits[i]]
           IN IF batch.pc # "waiting" THEN batch
              ELSE [batch EXCEPT !.results = results, !.waits = waits,
                                 !.pc = IF Settled(waits) THEN "done" ELSE "waiting"]
     IN /\ cache' = put.cache
        /\ accessOrder' = put.accessOrder
        /\ accessCount' = put.accessCount
        /\ lastEvict' = IF put.evict.happened THEN put.evict ELSE lastEvict
        /\ pendingComputations' = pendingComputations \ {p}
        /\ batches' = [b \in 1..MaxBatches |-> Deliver(batches[b])]
  /\ UNCHANGED <<cacheNow, exprCalls, lastInvalidate>>
  /\ UNCHANGED nonCacheVars

\* A pending computation rejects: the then of lines 442-447, which holds the
\* delete, is skipped and the promise stored in pendingComputations is
\* rejected; Promise.all rejects for every getBatch that awaits it.
BatchReject(p) ==
  /\ p \in pendingComputations
  /\ p.settled = "pending"
  /\ pendingComputations' = (pendingComputations \ {p})
                              \cup {[p EXCEPT !.settled = "rejected"]}
  /\ batches' = [b \in 1..MaxBatches |->
                   IF batches[b].pc = "waiting"
                      /\ \E i \in 1..Len(batches[b].waits) : batches[b].waits[i] = p.key
                   THEN [batches[b] EXCEPT !.pc = "failed"]
                   ELSE batches[b]]
  /\ UNCHANGED <<cache, accessOrder, cacheNow, exprCalls, accessCount, lastEvict,
                 lastInvalidate>>
  /\ UNCHANGED nonCacheVars

\* ------------------------------------------------------------------------
\* Genetic operators (src/unnamed/part_006).  Gene values, weights,
\* essentiality and plasticity are in hundredths, metabolic costs in
\* 1/10000.  A random draw is a choice among its outcomes: an operator that
\* draws is the set of the results it can return.
\* ------------------------------------------------------------------------
createGene(id, name, domain, value, weight, essentiality, metabolicCost, plasticity) ==
  [id |-> id, name |-> name, domain |-> domain, value |-> value, weight |-> weight,
   plasticity |-> plasticity, essentiality |-> essentiality,
   metabolicCost |-> metabolicCost, origin |-> "primordial", age |-> 0,
   expressionState |-> "active", duplicateOf |-> "", acquiredFrom |-> ""]

\* Genes of the genesis chromosomes R, G and C (part_005).
R001 == createGene("R001", "global_expression_level", "REGULATORY", 50, 100, 90, 20, 30)
R002 == createGene("R002", "stress_response_regulator", "REGULATORY", 50, 90, 80, 15, 40)
G001 == createGene("G001", "acute_stress_response", "STRESS_RESPONSE", 50, 100, 80, 10, 50)
G002 == createGene("G002", "chronic_stress_adaptation", "ADAPTATION", 40, 90, 60, 10, 60)
C001 == createGene("C001", "risk_appetite", "RISK_ASSESSMENT", 50, 100, 50, 5, 40)

\* The edges of INITIAL_REGULATORY_NETWORK among these genes.
INITIAL_REGULATORY_NETWORK ==
  << [sourceGeneId |-> "R002", targetGeneId |-> "G001",
      relationship |-> "activation", strength |-> 80],
     [sourceGeneId |-> "R002", targetGeneId |-> "G002",
      relationship |-> "activation", strength |-> 60] >>

RECURSIVE FlatGenes(_)
\* chromosomes.flatMap(c => c.genes)
FlatGenes(chromosomes) ==
  IF Len(chromosomes) = 0 THEN << >>
  ELSE Head(chromosomes).genes \o FlatGenes(Tail(chromosomes))

GeneIds(chromosomes) ==
  LET all == FlatGenes(chromosomes) IN {all[i].id : i \in 1..Len(all)}

\* sha256 of the JSON text of the gene-id lists and the edge keys, taken as
\* collision free: the digest stands for the text it was made from.
GenomeHash(chromosomes, network) ==
  [chromosomes |-> [c \in 1..Len(chromosomes) |->
                      [g \in 1..Len(chromosomes[c].genes) |->
                         chromosomes[c].genes[g].id]],
   network |-> [e \in 1..Len(network) |->
                  <<network[e].sourceGeneId, network[e].targetGeneId>>]]

\* A genome whose metadata was computed from its content, as breed and
\* createGenesisGenome do (part_006:702-730, 743-772).
MakeGenome(generation, lineageId, chromosomes, network, epigenome) ==
  [meta |-> [generation |-> generation, lineageId |-> lineageId,
             genomeHash |-> GenomeHash(chromosomes, network),
             totalGenes |-> Len(FlatGenes(chromosomes))],
   chromosomes |-> chromosomes,
   regulatoryNetwork |-> network,
   epigenome |-> epigenome]

Chromosome(id, name, isEssential, genes) ==
  [id |-> id, name |-> name, isEssential |-> isEssential, genes |-> genes]

Aged(gene, years) == [gene EXCEPT !.age = years]

\* The genomes of the agents: three relatives of generations 1, 1 and 2.
\* The second lost C001 to a deletion; the third carries, on chromosome G, a
\* gene acquired by horizontal transfer.
ChrR == Chromosome("chr-R", "Regulatory", TRUE, << Aged(R001, 1), Aged(R002, 1) >>)
ChrG == Chromosome("chr-G", "Stress Response", TRUE, << Aged(G001, 1), Aged(G002, 1) >>)
ChrC == Chromosome("chr-C", "Economic Strategy", FALSE, << Aged(C001, 1) >>)

BreedGenomes ==
  << MakeGenome(1, "lineage-1", << ChrR, ChrG, ChrC >>,
                INITIAL_REGULATORY_NETWORK, << >>),
     MakeGenome(1, "lineage-2", << ChrR, ChrG, [ChrC EXCEPT !.genes = << >>] >>,
                INITIAL_REGULATORY_NETWORK, << >>),
     MakeGenome(2, "lineage-3",
       << ChrR,
          [ChrG EXCEPT !.genes =
             Append(@, [Aged(C001, 0) EXCEPT !.id = "gene_x", !.weight = 110,
                                             !.origin = "horizontal_transfer",
                                             !.acquiredFrom = "lineage-4"])],
          ChrC >>,
       INITIAL_REGULATORY_NETWORK, << >>) >>

\* Every way of taking one sequence from each set of options, concatenated.
RECURSIVE Concatenations(_)
Concatenations(options) ==
  IF Len(options) = 0 THEN {<< >>}
  ELSE {h \o t : h \in Head(options), t \in Concatenations(Tail(options))}

\* The ids of xs followed by the ids of ys that xs lacks: the iteration
\* order of new Set([...xs ids, ...ys ids]).
UnionIds(xs, ys) ==
  [i \in 1..Len(xs) |-> xs[i].id]
    \o [i \in 1..Len(SelectSeq(ys, LAMBDA y : \A j \in 1..Len(xs) : xs[j].id # y.id))
          |-> SelectSeq(ys, LAMBDA y : \A j \in 1..Len(xs) : xs[j].id # y.id)[i].id]

Has(xs, id) == \E i \in 1..Len(xs) : xs[i].id = id
Find(xs, id) == xs[CHOOSE i \in 1..Len(xs) : xs[i].id = id /\ \A j \in 1..(i - 1) : xs[j].id # id]

OlderGenes(genes) == [i \in 1..Len(genes) |-> Aged(genes[i], genes[i].age + 1)]

\* What performCrossover can push for one chromosome id.
CrossoverOptions(parentA, parentB, chrId) ==
  LET hasA == Has(parentA.chromosomes, chrId)
      hasB == Has(parentB.chromosomes, chrId)
  IN IF ~hasA \/ ~hasB
     THEN LET existingChr == IF hasA THEN Find(parentA.chromosomes, chrId)
                             ELSE Find(parentB.chromosomes, chrId)
          IN { << >>,
               << [existingChr EXCEPT !.genes = OlderGenes(existingChr.genes)] >> }
     ELSE LET chrA == Find(parentA.chromosomes, chrId)
              chrB == Find(parentB.chromosomes, chrId)
              allGeneIds == UnionIds(chrA.genes, chrB.genes)
              GeneOptions(geneId) ==
                IF Has(chrA.genes, geneId) /\ Has(chrB.genes, geneId)
                THEN { OlderGenes(<< Find(chrA.genes, geneId) >>),
                       OlderGenes(<< Find(chrB.genes, geneId) >>) }
                ELSE { OlderGenes(<< IF Has(chrA.genes, geneId)
                                     THEN Find(chrA.genes, geneId)
                                     ELSE Find(chrB.genes, geneId) >>),
                       << >> }
          IN { << [chrA EXCEPT !.genes = OlderGenes(chrA.genes)] >>,
               << [chrB EXCEPT !.genes = OlderGenes(chrB.genes)] >> }
             \cup
             { << Chromosome(chrId, chrA.name, chrA.isEssential \/ chrB.isEssential,
                             childGenes) >> :
               childGenes \in Concatenations([i \in 1..Len(allGeneIds) |->
                                                GeneOptions(allGeneIds[i])]) }

\* performCrossover: the chromosome lists it can return.
performCrossover(parentA, parentB) ==
  LET chrIds == UnionIds(parentA.chromosomes, parentB.chromosomes)
  IN Concatenations([i \in 1..Len(chrIds) |->
                       CrossoverOptions(parentA, parentB, chrIds[i])])

\* The positions <<chromosome, gene>> of a chromosome list.
Positions(chromosomes) ==
  UNION {{<<c, g>> : g \in 1..Len(chromosomes[c].genes)} : c \in 1..Len(chromosomes)}

\* Outcomes of secureRandom() where its value is kept.
RandomDraws == {50}
\* Outcomes of secureGaussian(0, sigma).
GaussianDraws == {-10}

\* generateGeneId: the ids handed out during one breeding, in order.
BredGeneIds == << "gene_n1", "gene_n2", "gene_n3" >>

ReplaceGene(chromosomes, c, g, gene) ==
  [chromosomes EXCEPT ![c].genes[g] = gene]

\* What applyPointMutations can make of one gene when a mutation draw
\* succeeds: a large mutation, a point mutation, or a weight mutation.
PointMutants(gene) ==
  {[gene EXCEPT !.value = v, !.origin = "mutated"] : v \in RandomDraws}
  \cup {[gene EXCEPT !.value = Clamp(0, 100, gene.value + n), !.origin = "mutated"] :
          n \in GaussianDraws}
  \cup {[gene EXCEPT !.weight = Clamp(10, 300, gene.weight + n)] : n \in GaussianDraws}

\* applyPointMutations, after rare low-rate draws have succeeded so far.
applyPointMutations(chromosomes, rare) ==
  {[chromosomes |-> chromosomes, rare |-> rare]}
  \cup (IF rare >= MaxRareDraws THEN {}
        ELSE UNION {{[chromosomes |-> ReplaceGene(chromosomes, p[1], p[2], m),
                      rare |-> rare + 1] :
                       m \in PointMutants(chromosomes[p[1]].genes[p[2]])} :
                    p \in Positions(chromosomes)})

createDuplicatedGene(sourceGene, id) ==
  [sourceGene EXCEPT !.id = id,
                     !.weight = (sourceGene.weight * 50) \div 100,
                     !.origin = "duplicated", !.age = 0,
                     !.duplicateOf = sourceGene.id, !.acquiredFrom = ""]

applyGeneDuplications(chromosomes, rare) ==
  {[chromosomes |-> chromosomes, rare |-> rare]}
  \cup (IF rare >= MaxRareDraws THEN {}
        ELSE UNION {{LET gene == chromosomes[p[1]].genes[p[2]]
                         duplicated == createDuplicatedGene(gene, BredGeneIds[rare + 1])
                     IN [chromosomes |->
                           [chromosomes EXCEPT ![p[1]].genes =
                              Append(@, [duplicated EXCEPT !.value =
                                           Clamp(0, 100, duplicated.value + n)])],
                         rare |-> rare + 1] : n \in GaussianDraws} :
                    p \in Positions(chromosomes)})

\* deletionProb of lines 420-435, in 1/20000.
deletionProb(gene, starvationMode) ==
  LET deletionThreshold == IF starvationMode THEN 15 ELSE 2
      base == 2 * deletionThreshold * (100 - gene.essentiality)
      silenced == IF gene.expressionState = "silenced"
                  THEN Max(base, 2 * 8 * (100 - gene.essentiality)) ELSE base
      lowWeight == IF gene.weight < 30
                   THEN Max(silenced, 2 * 5 * (100 - gene.essentiality)) ELSE silenced
  IN IF starvationMode /\ gene.metabolicCost > 50 THEN (lowWeight * 3) \div 2
     ELSE lowWeight

\* What applyGeneDeletions can keep of one gene.
DeletionOptions(gene, starvationMode) ==
  IF gene.essentiality > 80 THEN {<< gene >>}
  ELSE (IF deletionProb(gene, starvationMode) > 0 THEN {<< >>} ELSE {})
       \cup (IF deletionProb(gene, starvationMode) <= 20000 THEN {<< gene >>} ELSE {})

\* applyGeneDeletions: the chromosome lists it can return.
applyGeneDeletions(chromosomes, starvationMode) ==
  Concatenations(
    [c \in 1..Len(chromosomes) |->
       { << [chromosomes[c] EXCEPT !.genes = survivingGenes] >> :
         survivingGenes \in
           Concatenations([g \in 1..Len(chromosomes[c].genes) |->
                             DeletionOptions(chromosomes[c].genes[g], starvationMode)]) }])

\* createDeNovoGene, every draw of it having come out as r.
createDeNovoGene(id, r) ==
  [id |-> id, name |-> "novo", domain |-> "METABOLISM", value |-> r,
   weight |-> 10 + (r * (30 - 10)) \div 100,
   plasticity |-> 50 + (r * (100 - 50)) \div 100,
   essentiality |-> 0 + (r * (20 - 0)) \div 100,
   metabolicCost |-> (r * 50) \div 100, origin |-> "de_novo", age |-> 0,
   expressionState |-> "conditional", duplicateOf |-> "", acquiredFrom |-> ""]

\* applyDeNovoGenes.  secureChoice returns undefined when its draw is 1.0,
\* and targetChr.genes then throws.
applyDeNovoGenes(chromosomes, rare) ==
  {[chromosomes |-> chromosomes, rare |-> rare, threw |-> FALSE]}
  \cup (IF rare >= MaxRareDraws THEN {}
        ELSE LET nonEssentialChrs == {c \in 1..Len(chromosomes) :
                                        ~chromosomes[c].isEssential}
             IN UNION {LET newGene == createDeNovoGene(BredGeneIds[rare + 1], r)
                       IN IF nonEssentialChrs # {}
                          THEN {[chromosomes |->
                                   [chromosomes EXCEPT ![c].genes = Append(@, newGene)],
                                 rare |-> rare + 1, threw |-> FALSE] :
                                  c \in nonEssentialChrs}
                               \cup {[chromosomes |-> chromosomes, rare |-> rare + 1,
                                      threw |-> TRUE]}
                          ELSE {[chromosomes |->
                                   Append(chromosomes,
                                          Chromosome("chr-novo", "Accessory", FALSE,
                                                     << newGene >>)),
                                 rare |-> rare + 1, threw |-> FALSE]} :
                       r \in RandomDraws})

EdgeHas(edges, source, target) ==
  \E i \in 1..Len(edges) : edges[i].sourceGeneId = source /\ edges[i].targetGeneId = target

\* edgeMap.set(key, edge): an existing key keeps its place.
EdgeSet(edges, edge) ==
  IF EdgeHas(edges, edge.sourceGeneId, edge.targetGeneId)
  THEN [i \in 1..Len(edges) |->
          IF edges[i].sourceGeneId = edge.sourceGeneId
             /\ edges[i].targetGeneId = edge.targetGeneId
          THEN edge ELSE edges[i]]
  ELSE Append(edges, edge)

\* The union of the parent networks (lines 520-525): the edge maps it can
\* build from the edges i.. of the list.
RECURSIVE UnionEdges(_, _, _)
UnionEdges(edges, i, edgeMap) ==
  IF i > Len(edges) THEN {edgeMap}
  ELSE IF ~EdgeHas(edgeMap, edges[i].sourceGeneId, edges[i].targetGeneId)
       THEN UnionEdges(edges, i + 1, EdgeSet(edgeMap, edges[i]))
       ELSE UnionEdges(edges, i + 1, EdgeSet(edgeMap, edges[i]))
            \cup UnionEdges(edges, i + 1, edgeMap)

\* Lines 527-550: a new edge between two genes of the child.
AddEdge(st, childChromosomes) ==
  {st} \cup
  (IF st.rare >= MaxRareDraws \/ st.threw THEN {}
   ELSE LET allGenes == GeneIds(childChromosomes)
        IN IF Cardinality(allGenes) < 2 THEN {[st EXCEPT !.rare = @ + 1]}
           ELSE {[st EXCEPT !.rare = @ + 1, !.threw = TRUE]}
                \cup {[st EXCEPT !.rare = @ + 1,
                                 !.network =
                                    IF EdgeHas(st.network, pair[1], pair[2]) THEN @
                                    ELSE Append(@, [sourceGeneId |-> pair[1],
                                                    targetGeneId |-> pair[2],
                                                    relationship |->
                                                      IF r < 50 THEN "activation"
                                                      ELSE "inhibition",
                                                    strength |-> r])] :
                        pair \in {q \in allGenes \X allGenes : q[1] # q[2]},
                        r \in RandomDraws})

\* Lines 553-567: one edge is deleted.
DeleteEdge(st) ==
  {st} \cup
  (IF st.rare >= MaxRareDraws \/ st.threw THEN {}
   ELSE IF Len(st.network) = 0 THEN {[st EXCEPT !.rare = @ + 1]}
        ELSE {[st EXCEPT !.rare = @ + 1, !.threw = TRUE]}
             \cup {[st EXCEPT !.rare = @ + 1,
                              !.network = SelectSeq(@, LAMBDA e : e # st.network[i])] :
                     i \in 1..Len(st.network)})

\* Lines 570-588: the strength of an edge is modified.
ModifyEdge(st) ==
  {st} \cup
  (IF st.rare >= MaxRareDraws \/ st.threw THEN {}
   ELSE {[st EXCEPT !.rare = @ + 1,
                    !.network[i].strength = Clamp(0, 100, @ + n)] :
           i \in 1..Len(st.network), n \in GaussianDraws})

\* recombineRegulatoryNetwork: the networks it can return.  The child's
\* chromosomes are used for new edges only.
recombineRegulatoryNetwork(parentA, parentB, childChromosomes, rare) ==
  LET unions == UnionEdges(parentA.regulatoryNetwork \o parentB.regulatoryNetwork,
                           1, << >>)
      started == {[network |-> u, rare |-> rare, threw |-> FALSE] : u \in unions}
      added == UNION {AddEdge(st, childChromosomes) : st \in started}
      deleted == UNION {DeleteEdge(st) : st \in added}
  IN UNION {ModifyEdge(st) : st \in deleted}

NoGenome == MakeGenome(0, "", << >>, << >>, << >>)

\* breed(context, config), begun after rare low-rate draws have succeeded:
\* holds when result is a result it can return.  A result records the
\* chromosome lists after crossover, duplication, deletion and de novo
\* birth, and the child; threw tells that the pipeline threw a TypeError.
breed(parentA, parentB, starvationMode, rare, result) ==
  \E crossed \in performCrossover(parentA, parentB) :
  \E mutated \in applyPointMutations(crossed, rare) :
  \E duplicated \in applyGeneDuplications(mutated.chromosomes, mutated.rare) :
  \E pruned \in applyGeneDeletions(duplicated.chromosomes, starvationMode) :
  \E novo \in applyDeNovoGenes(pruned, duplicated.rare) :
  \E recombined \in recombineRegulatoryNetwork(parentA, parentB, novo.chromosomes,
                                               novo.rare) :
    result = [threw |-> novo.threw \/ recombined.threw,
              rare |-> recombined.rare,
              crossed |-> crossed,
              duplicated |-> duplicated.chromosomes,
              pruned |-> pruned,
              final |-> novo.chromosomes,
              childGenome |->
                IF novo.threw \/ recombined.threw THEN NoGenome
                ELSE MakeGenome(Max(parentA.meta.generation, parentB.meta.generation) + 1,
                                parentA.meta.lineageId, novo.chromosomes,
                                recombined.network, << >>)]

\* No call of breed has returned.
NoBred == [threw |-> FALSE, rare |-> 0, crossed |-> << >>, duplicated |-> << >>,
                   pruned |-> << >>, final |-> << >>, childGenome |-> NoGenome]

\* calculateGenomeSimilarity: the sizes of the intersection and of the union
\* of the two gene-id sets, whose quotient the code returns.
calculateGenomeSimilarity(genomeA, genomeB) ==
  [intersection |-> Cardinality(GeneIds(genomeA.chromosomes)
                                  \cap GeneIds(genomeB.chromosomes)),
   union |-> Cardinality(GeneIds(genomeA.chromosomes)
                           \cup GeneIds(genomeB.chromosomes))]

\* The refusal as it would be with a threshold of 0.9.
InbreedingAboveNineTenths(similarity) ==
  10 * similarity.intersection > 9 * similarity.union

\* Whether executeBreeding refuses the pair: similarity > 0.8.
Inbreeding(similarity) == 5 * similarity.intersection > 4 * similarity.union

\* inheritEpigenome (epigenetics.ts:287-332): the mark lists it can return.
\* A mark is inherited when a draw falls below its heritability.
ProcessParentMarks(parent, generationCreated) ==
  Concatenations(
    [i \in 1..Len(parent.epigenome) |->
       (IF parent.epigenome[i].heritability > 0
        THEN { << [parent.epigenome[i] EXCEPT
                     !.strength = (@ * 8) \div 10,
                     !.generationCreated = generationCreated] >> }
        ELSE {})
       \cup { << >> }])

inheritEpigenome(parentA, parentB) ==
  LET generationCreated == Max(parentA.meta.generation, parentB.meta.generation) + 1
      marksA == ProcessParentMarks(parentA, generationCreated)
      marksB == ProcessParentMarks(parentB, generationCreated)
  IN {MarkMapSetAll(MarkMapSetAll(<< >>, secondaryMarks, 1), primaryMarks, 1) :
        primaryMarks \in marksA, secondaryMarks \in marksB}
     \cup {MarkMapSetAll(MarkMapSetAll(<< >>, secondaryMarks, 1), primaryMarks, 1) :
             primaryMarks \in marksB, secondaryMarks \in marksA}

\* executeBreeding(sessionId, parentAGenome, parentBGenome, environmentalStress):
\* holds when result is what its call of breed returns and returned is what
\* it returns or throws itself.  environmentalStress is in tenths.
executeBreeding(parentAGenome, parentBGenome, environmentalStress, rare, result, returned) ==
  IF Inbreeding(calculateGenomeSimilarity(parentAGenome, parentBGenome))
  THEN /\ result = [NoBred EXCEPT !.rare = rare]
       /\ returned = [error |-> "inbreeding", crossed |-> << >>,
                      duplicated |-> << >>, pruned |-> << >>, final |-> << >>,
                      childGenome |-> NoGenome]
  ELSE /\ breed(parentAGenome, parentBGenome, environmentalStress > 7, rare, result)
       /\ \E inheritedMarks \in inheritEpigenome(parentAGenome, parentBGenome) :
            returned =
              [error |-> IF result.threw THEN "TypeError" ELSE "",
               crossed |-> result.crossed,
               duplicated |-> result.duplicated,
               pruned |-> result.pruned,
               final |-> result.final,
               childGenome |->
                 IF result.threw THEN NoGenome
                 ELSE [result.childGenome EXCEPT
                         !.epigenome = inheritedMarks,
                         !.meta.generation =
                            Max(parentAGenome.meta.generation,
                                parentBGenome.meta.generation) + 1]]

\* genes.slice(0, startIndex), the reversed slice(startIndex, endIndex), and
\* slice(endIndex).
Inverted(genes, startIndex, endIndex) ==
  SubSeq(genes, 1, startIndex)
    \o Reverse(SubSeq(genes, startIndex + 1, endIndex))
    \o SubSeq(genes, endIndex + 1, Len(genes))

\* applyChromosomalInversion from chromosome c on.
RECURSIVE InversionFrom(_, _, _)
InversionFrom(chromosomes, c, rare) ==
  IF c > Len(chromosomes) THEN {[chromosomes |-> chromosomes, rare |-> rare]}
  ELSE InversionFrom(chromosomes, c + 1, rare)
       \cup (IF rare >= MaxRareDraws \/ Len(chromosomes[c].genes) < 3 THEN {}
             ELSE LET genes == chromosomes[c].genes
                      segments ==
                        UNION {UNION {{<<startIndex, endIndex>> :
                                         endIndex \in (startIndex + 1)..
                                                      Min(Len(genes), startIndex + k + 2)} :
                                      k \in 0..5} :
                               startIndex \in 0..(Len(genes) - 2)}
                  IN UNION {InversionFrom(
                              [chromosomes EXCEPT ![c].genes = Inverted(genes, s[1], s[2])],
                              c + 1, rare + 1) : s \in segments})

applyChromosomalInversion(chromosomes, rare) == InversionFrom(chromosomes, 1, rare)

\* applyChromosomalTranslocation
applyChromosomalTranslocation(chromosomes, rare) ==
  {[chromosomes |-> chromosomes, rare |-> rare]}
  \cup (IF Len(chromosomes) < 2 \/ rare >= MaxRareDraws THEN {}
        ELSE LET nonEssential == {c \in 1..Len(chromosomes) :
                                    /\ ~chromosomes[c].isEssential
                                    /\ Len(chromosomes[c].genes) >= 2}
             IN IF Cardinality(nonEssential) < 2
                THEN {[chromosomes |-> chromosomes, rare |-> rare + 1]}
                ELSE UNION {
                       LET chrA == chromosomes[pair[1]]
                           chrB == chromosomes[pair[2]]
                       IN {[chromosomes |->
                              [c \in 1..Len(chromosomes) |->
                                 IF chromosomes[c].id = chrA.id
                                 THEN [chromosomes[c] EXCEPT !.genes =
                                         SubSeq(chrA.genes, 1, breakA)
                                           \o SubSeq(chrB.genes, breakB + 1, Len(chrB.genes))]
                                 ELSE IF chromosomes[c].id = chrB.id
                                 THEN [chromosomes[c] EXCEPT !.genes =
                                         SubSeq(chrB.genes, 1, breakB)
                                           \o SubSeq(chrA.genes, breakA + 1, Len(chrA.genes))]
                                 ELSE chromosomes[c]],
                            rare |-> rare + 1] :
                             breakA \in 1..Len(chrA.genes), breakB \in 1..Len(chrB.genes)} :
                       pair \in {q \in nonEssential \X nonEssential : q[1] # q[2]}})

\* name.split('_')[0]
FirstWord(name) ==
  CASE name = "global_expression_level"   -> "global"
    [] name = "stress_response_regulator" -> "stress"
    [] name = "acute_stress_response"     -> "acute"
    [] name = "chronic_stress_adaptation" -> "chronic"
    [] name = "risk_appetite"             -> "risk"
    [] OTHER                              -> name

\* The two genes of a pair after a conversion that overwrites the properties
\* in converted.
Converted(chromosomes, c, i, j, converted) ==
  LET geneA == chromosomes[c].genes[i]
      geneB == chromosomes[c].genes[j]
      donorIsA == geneA.value * geneA.weight > geneB.value * geneB.weight
      donor == IF donorIsA THEN geneA ELSE geneB
      recipient == IF donorIsA THEN geneB ELSE geneA
      changed == [recipient EXCEPT
                    !.value = IF "value" \in converted
                              THEN (donor.value * 70 + recipient.value * 30) \div 100
                              ELSE @,
                    !.weight = IF "weight" \in converted
                               THEN (donor.weight * 70 + recipient.weight * 30) \div 100
                               ELSE @]
  IN ReplaceGene(chromosomes, c, IF donorIsA THEN j ELSE i, changed)

\* applyGeneConversion: at most one pair is converted.
applyGeneConversion(chromosomes, rare) ==
  {[chromosomes |-> chromosomes, rare |-> rare]}
  \cup (IF rare >= MaxRareDraws THEN {}
        ELSE UNION {
               LET geneA == chromosomes[p[1]].genes[p[2]]
                   geneB == chromosomes[p[1]].genes[p[3]]
                   similar == \/ geneA.domain = geneB.domain
                              \/ FirstWord(geneA.name) = FirstWord(geneB.name)
               IN IF similar
                  THEN {[chromosomes |-> Converted(chromosomes, p[1], p[2], p[3], converted),
                         rare |-> rare + 1] : converted \in SUBSET {"value", "weight"}}
                  ELSE {[chromosomes |-> chromosomes, rare |-> rare + 1]} :
               p \in {q \in UNION {{<<c, i, j>> : i \in 1..Len(chromosomes[c].genes),
                                                      j \in 1..Len(chromosomes[c].genes)} :
                                     c \in 1..Len(chromosomes)} : q[2] < q[3]}})

\* breedEnhanced(context, config, options): holds when result is what its
\* call of breed returns and returned is what it returns itself.
breedEnhanced(parentA, parentB, starvationMode, rare, result, returned) ==
  /\ breed(parentA, parentB, starvationMode, rare, result)
  /\ ~result.threw
  /\ \E inversion \in applyChromosomalInversion(result.childGenome.chromosomes,
                                                result.rare) :
     \E translocation \in applyChromosomalTranslocation(inversion.chromosomes,
                                                        inversion.rare) :
     \E conversion \in applyGeneConversion(translocation.chromosomes,
                                           translocation.rare) :
       returned = [rare |-> conversion.rare,
                   childGenome |-> [result.childGenome EXCEPT
                                      !.chromosomes = conversion.chromosomes]]

\* generateGeneId: the ids handed out to transferred genes, in order.
TransferredGeneIds == << "gene_h1", "gene_h2", "gene_h3" >>

createHGTGene(sourceGene, fromAgentId, id) ==
  [sourceGene EXCEPT !.id = id,
                     !.weight = (sourceGene.weight * 30) \div 100,
                     !.origin = "horizontal_transfer", !.age = 0,
                     !.duplicateOf = "", !.acquiredFrom = fromAgentId]

NoGene == createGene("", "", "", 0, 0, 0, 0, 0)

\* performHGT(recipient, donor, donorId, cooperationHours, interactionCount),
\* handing out id, after rare low-rate draws have succeeded: the outcomes it
\* can have.  targetChr.genes.push adds the gene to a chromosome object that
\* the recipient shares with the returned genome, so the recipient changes
\* with it.
performHGT(recipient, donor, donorId, cooperationHours, interactionCount, id, rare) ==
  LET unchanged == [threw |-> FALSE, rare |-> rare, returned |-> recipient,
                    transferred |-> NoGene, recipient |-> recipient]
      donorGenes == FlatGenes(donor.chromosomes)
      highlyExpressed == SelectSeq(donorGenes,
                                   LAMBDA g : g.weight > 100 /\ g.expressionState = "active")
  IN IF cooperationHours < 72 \/ interactionCount < 20 THEN {unchanged}
     ELSE {unchanged}
          \cup (IF rare >= MaxRareDraws THEN {}
                ELSE IF Len(highlyExpressed) = 0 THEN {[unchanged EXCEPT !.rare = rare + 1]}
                ELSE {[unchanged EXCEPT !.threw = TRUE, !.rare = rare + 1]}
                     \cup UNION {
                            LET transferredGene ==
                                  createHGTGene(highlyExpressed[k], donorId, id)
                            IN {[unchanged EXCEPT !.transferred = transferredGene,
                                                  !.rare = rare + 1]}
                               \cup
                               {LET after == [recipient EXCEPT !.chromosomes[c].genes =
                                                Append(@, transferredGene)]
                                IN [threw |-> FALSE, rare |-> rare + 1, returned |-> after,
                                    transferred |-> transferredGene,
                                    recipient |-> after] :
                                  c \in 1..Len(recipient.chromosomes)} :
                            k \in 1..Len(highlyExpressed)})

\* ------------------------------------------------------------------------
\* EvolutionManager (src/src/lifecycle/Evolution.ts) and its agents
\* ------------------------------------------------------------------------
NoOutcome == [error |-> "", crossed |-> << >>, duplicated |-> << >>,
              pruned |-> << >>, final |-> << >>, childGenome |-> NoGenome]

NoBreeding == [pc |-> "idle", a |-> 0, b |-> 0, parentA |-> NoGenome,
               parentB |-> NoGenome, environmentalStress |-> 0]

NoEnhanced == [rare |-> 0, childGenome |-> NoGenome]

NoHGT == [called |-> FALSE, threw |-> FALSE, returned |-> NoGenome,
          transferred |-> NoGene, given |-> NoGenome, recipient |-> NoGenome]

\* The pairs of agents that breed and the stress they breed under (tenths).
BreedingInputs == {<<1, 1>>, <<1, 2>>, <<1, 3>>}
StressInputs == {0, 8}
EnhancedInputs == {<<1, 3>>}

\* The recipients and donors of a transfer, and their cooperation records.
HGTInputs == {<<2, 3>>, <<1, 2>>}
CooperationInputs == {[hours |-> 71, interactions |-> 20],
                      [hours |-> 72, interactions |-> 19],
                      [hours |-> 72, interactions |-> 20]}

\* executeBreeding as it would run with an await between taking the parent
\* genomes and breeding them: the call begins in one turn and returns in a
\* later one, and other operations run in between.
ExecuteBreedingAwaited(a, b, stress) ==
  \/ /\ breeding.pc = "idle"
     /\ evolutions < MaxEvolutions
     /\ breedings < MaxBreedings
     /\ breeding' = [NoBreeding EXCEPT !.pc = "running", !.a = a, !.b = b,
                                       !.parentA = population[a],
                                       !.parentB = population[b],
                                       !.environmentalStress = stress]
     /\ UNCHANGED <<population, bred, breedingResult, enhanced, hgt, evolutions,
                    breedings, rareDraws>>
     /\ UNCHANGED nonEvoVars
  \/ /\ breeding.pc = "running"
     /\ breeding.a = a /\ breeding.b = b /\ breeding.environmentalStress = stress
     /\ executeBreeding(breeding.parentA, breeding.parentB, stress, rareDraws,
                        bred', breedingResult')
     /\ breeding' = [breeding EXCEPT !.pc = "done"]
     /\ rareDraws' = bred'.rare
     /\ evolutions' = evolutions + 1
     /\ breedings' = breedings + 1
     /\ UNCHANGED <<population, enhanced, hgt>>
     /\ UNCHANGED nonEvoVars

\* executeBreeding is called with the genomes of agents a and b.  Its body
\* holds no await: it runs from its first line to its return in one turn.
ExecuteBreeding(a, b, stress) ==
  /\ evolutions < MaxEvolutions
  /\ breedings < MaxBreedings
  /\ executeBreeding(population[a], population[b], stress, rareDraws,
                     bred', breedingResult')
  /\ breeding' = [pc |-> "done", a |-> a, b |-> b,
                  parentA |-> population[a], parentB |-> population[b],
                  environmentalStress |-> stress]
  /\ rareDraws' = bred'.rare
  /\ evolutions' = evolutions + 1
  /\ breedings' = breedings + 1
  /\ UNCHANGED <<population, enhanced, hgt>>
  /\ UNCHANGED nonEvoVars

\* breedEnhanced is called with the genomes of agents a and b.
BreedEnhanced(a, b, starvationMode) ==
  /\ evolutions < MaxEvolutions
  /\ breedings < MaxBreedings
  /\ breedEnhanced(population[a], population[b], starvationMode, rareDraws,
                   bred', enhanced')
  /\ rareDraws' = enhanced'.rare
  /\ evolutions' = evolutions + 1
  /\ breedings' = breedings + 1
  /\ UNCHANGED <<population, breeding, breedingResult, hgt>>
  /\ UNCHANGED nonEvoVars

\* attemptHGT finds a cooperation record and calls performHGT with the
\* genomes of the recipient r and of the donor d.
PerformHGT(r, d, cooperation) ==
  /\ evolutions < MaxEvolutions
  /\ \E outcome \in performHGT(population[r], population[d],
                               population[d].meta.lineageId, cooperation.hours,
                               cooperation.interactions,
                               TransferredGeneIds[evolutions + 1], rareDraws) :
       /\ hgt' = [called |-> TRUE, threw |-> outcome.threw,
                  returned |-> outcome.returned, transferred |-> outcome.transferred,
                  given |-> population[r], recipient |-> outcome.recipient]
       /\ population' = [population EXCEPT ![r] = outcome.recipient]
       /\ rareDraws' = outcome.rare
  /\ evolutions' = evolutions + 1
  /\ UNCHANGED <<breeding, bred, breedingResult, enhanced, breedings>>
  /\ UNCHANGED nonEvoVars

StressedEnvironment == [StarvingEnvironment EXCEPT !.daysStarving = 0, !.stressLevel = 8]

\* The survival tick of agent a replaces its genome by
\* updateEpigenome(genome, env) (Survival.ts).
EpigenomeTick(a) ==
  /\ evolutions < MaxEvolutions
  /\ population' = [population EXCEPT ![a].epigenome =
                      updateEpigenome(FlatGenes(population[a].chromosomes), @,
                                      population[a].meta.generation,
                                      StressedEnvironment)]
  /\ evolutions' = evolutions + 1
  /\ UNCHANGED <<breeding, bred, breedingResult, enhanced, hgt, breedings, rareDraws>>
  /\ UNCHANGED nonEvoVars

\* ------------------------------------------------------------------------
\* The operations on an epigenome (epigenetics.ts), on three genomes that
\* carry the genes of Genes: two parents and the child bred from them.
\* ------------------------------------------------------------------------
EpigenomeGenomes ==
  << [meta |-> [generation |-> 0], epigenome |-> << >>],
     [meta |-> [generation |-> 1], epigenome |-> << >>],
     [meta |-> [generation |-> 2], epigenome |-> << >>] >>

EpigenomeEnvironments ==
  { StarvingEnvironment,
    [StarvingEnvironment EXCEPT !.currentMode = "emergency"],
    [StarvingEnvironment EXCEPT !.daysStarving = 0] }

\* ManualMarkOptions without heritability and decay: addEpigeneticMark fills
\* in 0.3 and 0.2.  Strength and heritability are in 1/10000.
ManualMarkInputs ==
  { [targetGeneId |-> "g1", modification |-> "silence", strength |-> 5000,
     cause |-> "manual"],
    [targetGeneId |-> "g2", modification |-> "downregulate", strength |-> 1000,
     cause |-> "manual"] }

InheritInputs == { <<1, 2>>, <<3, 1>> }

EpiCall(op, a, input, new, after) ==
  [op |-> op, agent |-> a, input |-> input, before |-> epigenomes[a].epigenome,
   newMarks |-> new, after |-> after]

\* genome = updateEpigenome(genome, environment).genome, and the newMarks
\* the call reports.
UpdateEpigenome(a, env) ==
  LET updated == updateEpigenome(Genes, epigenomes[a].epigenome,
                                 epigenomes[a].meta.generation, env)
      newMarks == NewMarks(DEFAULT_EPIGENETIC_TRIGGERS, 1, Genes,
                           epigenomes[a].meta.generation, env)
  IN /\ Len(epiLog) < MaxEpigenomeCalls
     /\ epigenomes' = [epigenomes EXCEPT ![a].epigenome = updated]
     /\ epiLog' = Append(epiLog, EpiCall("update", a, env, newMarks, updated))
     /\ UNCHANGED nonEpiVars

\* genome = addEpigeneticMark(genome, options)
AddEpigeneticMark(a, options) ==
  LET mark == [targetGeneId |-> options.targetGeneId,
               modification |-> options.modification,
               strength |-> options.strength,
               cause |-> options.cause,
               heritability |-> 3000,
               decay |-> 20,
               generationCreated |-> epigenomes[a].meta.generation]
      filteredEpigenome ==
        SelectSeq(epigenomes[a].epigenome,
                  LAMBDA m : m.targetGeneId # options.targetGeneId)
      added == Append(filteredEpigenome, mark)
  IN /\ Len(epiLog) < MaxEpigenomeCalls
     /\ epigenomes' = [epigenomes EXCEPT ![a].epigenome = added]
     /\ epiLog' = Append(epiLog, EpiCall("add", a, options, <<mark>>, added))
     /\ UNCHANGED nonEpiVars

\* genome = removeEpigeneticMark(genome, geneId)
RemoveEpigeneticMark(a, geneId) ==
  LET removed == SelectSeq(epigenomes[a].epigenome,
                           LAMBDA m : m.targetGeneId # geneId)
  IN /\ Len(epiLog) < MaxEpigenomeCalls
     /\ epigenomes' = [epigenomes EXCEPT ![a].epigenome = removed]
     /\ epiLog' = Append(epiLog, EpiCall("remove", a, geneId, << >>, removed))
     /\ UNCHANGED nonEpiVars

\* executeBreeding gives the child the marks of inheritEpigenome(parentA,
\* parentB) and the generation after the later parent's.  The child is
\* genome 3.
InheritEpigenome(a, b) ==
  /\ Len(epiLog) < MaxEpigenomeCalls
  /\ \E inheritedMarks \in inheritEpigenome(epigenomes[a], epigenomes[b]) :
       /\ epigenomes' =
            [epigenomes EXCEPT
               ![3] = [meta |-> [generation |->
                                   Max(epigenomes[a].meta.generation,
                                       epigenomes[b].meta.generation) + 1],
                       epigenome |-> inheritedMarks]]
       /\ epiLog' = Append(epiLog, EpiCall("inherit", 3, <<a, b>>, inheritedMarks,
                                           inheritedMarks))
  /\ UNCHANGED nonEpiVars

\* ------------------------------------------------------------------------
\* From the queried balances to the strategies the filter allows
\* (Survival.ts:205-231, part_008:470-563).
\* ------------------------------------------------------------------------
\* The balances a query can return: each threshold, and the value below it.
\* eth is in 10^12 wei, usdc in 10^-6 USDC.
BalanceProbes ==
  << [eth |-> 1000, usdc |-> 5000000], [eth |-> 1000, usdc |-> 4999999],
     [eth |-> 1000, usdc |-> 2000000], [eth |-> 1000, usdc |-> 1999999],
     [eth |-> 1000, usdc |-> 500000],  [eth |-> 1000, usdc |-> 499999],
     [eth |-> 999, usdc |-> 5000000],  [eth |-> 999, usdc |-> 4999999],
     [eth |-> 999, usdc |-> 2000000],  [eth |-> 999, usdc |-> 1999999],
     [eth |-> 999, usdc |-> 500000],   [eth |-> 999, usdc |-> 499999] >>

SocialTraits == {"agent_cooperation", "trust_default"}

\* GenomeAt(level, {}) with the given traits expressed at value.
GenomeWith(level, traits, value) ==
  [k \in 1..Len(GenesisGenes) |->
     [GenomeAt(level, {})[k] EXCEPT
        !.expressedValue = IF GenesisGenes[k].name \in traits THEN value ELSE @]]

\* The expressed genomes the filter is called with.
FilterGenomes ==
  << GenomeWith(100, SocialTraits, 90),
     GenomeWith(100, SocialTraits, 0),
     GenomeWith(40, SocialTraits, 0) >>

\* exclusionReasons.get(strategy.id) after filterStrategies, without the
\* interpolated values; "" for a strategy that is not excluded.
ExclusionReason(strategy, perception) ==
  LET genes == perception.genome.genes
  IN IF ~checkGeneRequirements(strategy, genes)
       THEN "Gene requirement not met"
     ELSE IF ~checkToolAvailability(strategy, perception)
       THEN "Tool not available"
     ELSE IF strategy.riskLevel * 200 > calculateRiskTolerance(genes) * 3
       THEN "Risk level exceeds tolerance"
     ELSE IF strategy.complexity * 100 > calculateComplexityTolerance(genes)
       THEN "Complexity exceeds tolerance"
     ELSE IF ~checkResourceAvailability(strategy, perception)
       THEN "Resource check failed"
     ELSE IF perception.environment.currentMode = "emergency"
             /\ strategy.category \notin {"SURVIVAL", "DEFENSE"}
       THEN "Non-survival strategy excluded in emergency mode"
     ELSE IF perception.environment.currentMode = "emergency"
             /\ strategy.riskLevel > 30
       THEN "High-risk strategy excluded in emergency mode"
     ELSE IF strategy.category = "SOCIAL"
             /\ calculateSocialOrientation(genes) < 3000
       THEN "Social orientation too low"
     ELSE ""

\* The FilterResult for genome g under the balances b: filtered, and the
\* exclusionReasons of the excluded strategies.
FilterResult(g, b) ==
  LET perception ==
        [buildPerception(100, {}, determineOperationMode(BalanceProbes[b]),
                         BalanceProbes[b].usdc, 10000)
           EXCEPT !.genome.genes = FilterGenomes[g]]
      excluded == {k \in 1..Len(ALL_STRATEGIES) :
                     ~PassesFilter(ALL_STRATEGIES[k], perception)}
  IN [filtered |-> filterStrategies(perception),
      excluded |-> {ALL_STRATEGIES[k].id : k \in excluded},
      exclusionReasons |->
        {<<ALL_STRATEGIES[k].id, ExclusionReason(ALL_STRATEGIES[k], perception)>> :
           k \in excluded},
      socialOrientation |-> calculateSocialOrientation(FilterGenomes[g])]

FilterResultTable ==
  [g \in 1..Len(FilterGenomes) |->
     [b \in 1..Len(BalanceProbes) |-> FilterResult(g, b)]]

NoPerceived == [probe |-> 0, balances |-> [eth |-> 0, usdc |-> 0], mode |-> ""]

NoFilterCall ==
  [genome |-> 0, currentMode |-> "",
   result |-> [filtered |-> << >>, excluded |-> {}, exclusionReasons |-> {},
               socialOrientation |-> 0]]

\* getBalances resolves in a cycle: the mode is derived from the balances.
Perceive(b) ==
  /\ perceived' = [probe |-> b, balances |-> BalanceProbes[b],
                   mode |-> determineOperationMode(BalanceProbes[b])]
  /\ UNCHANGED filterCall
  /\ UNCHANGED nonPercVars

\* decide() calls filterStrategies on the perception built in the cycle
\* for the agent of genome g.
Filter(g) ==
  /\ perceived # NoPerceived
  /\ filterCall' = [genome |-> g, currentMode |-> ToLowerCase(perceived.mode),
                    result |-> FilterResultTable[g][perceived.probe]]
  /\ UNCHANGED perceived
  /\ UNCHANGED nonPercVars

\* ------------------------------------------------------------------------
\* X402Client.purchaseInference (src/src/tools/index.ts:96-230).  Amounts are
\* in 10^-6 USDC.
\* ------------------------------------------------------------------------
\* config.maxPrice, 1.0 USDC
maxPrice == 1000000

\* The prices whose parseFloat(maxAmountRequired) * 1e6 is not an integer:
\* 0.0079 gives 7900.000000000001.
InexactPrices == {7900}

\* BigInt(parseFloat(paymentInfo.maxAmountRequired) * 1e6): the amount, or
\* the RangeError BigInt throws for a number that is not an integer.
RequiredAmount(price) ==
  IF price \in InexactPrices THEN [threw |-> TRUE, amount |-> 0]
  ELSE [threw |-> FALSE, amount |-> price]

\* The responses of the provider to the first request: another status than
\* 402, a 402 without X-PAYMENT-INFO header, and 402 responses whose
\* maxAmountRequired is 0.0079, 0.5, 1.0 and 1.5 USDC.
InitialResponses ==
  { [status |-> 200, header |-> FALSE, price |-> 0],
    [status |-> 402, header |-> FALSE, price |-> 0],
    [status |-> 402, header |-> TRUE, price |-> 7900],
    [status |-> 402, header |-> TRUE, price |-> 500000],
    [status |-> 402, header |-> TRUE, price |-> 1000000],
    [status |-> 402, header |-> TRUE, price |-> 1500000] }

\* What getUSDCBalance resolves with.
USDCBalances == {100, 500000, 2000000}

\* The x-payment-response of the paid response.
PaidResponses == {"none", "error", "ok"}

NoPurchase ==
  [pc |-> "idle", status |-> 0, price |-> 0, balanceRead |-> FALSE, balance |-> 0,
   signatures |-> 0, paidRequests |-> 0, error |-> "", cost |-> 0]

\* purchaseInference up to its first await, the request without payment.
PurchaseInference(k) ==
  /\ purchases[k].pc = "idle"
  /\ purchases' = [purchases EXCEPT ![k].pc = "initial"]
  /\ UNCHANGED nonPayVars

\* The first request resolves (lines 113-142): up to the return for another
\* status than 402, to a throw, or to the await of getUSDCBalance.
InitialResolve(k, response, hasWallet) ==
  /\ purchases[k].pc = "initial"
  /\ purchases' =
       [purchases EXCEPT ![k] =
          IF response.status # 402
            THEN [@ EXCEPT !.pc = "returned", !.status = response.status]
          ELSE IF ~response.header
            THEN [@ EXCEPT !.pc = "threw", !.status = 402,
                           !.error = "402 response missing X-PAYMENT-INFO header"]
          ELSE IF response.price > maxPrice
            THEN [@ EXCEPT !.pc = "threw", !.status = 402, !.price = response.price,
                           !.error = "exceeds maximum"]
          ELSE IF ~hasWallet
            THEN [@ EXCEPT !.pc = "threw", !.status = 402, !.price = response.price,
                           !.error = "Wallet not found"]
          ELSE [@ EXCEPT !.pc = "balance", !.status = 402, !.price = response.price]]
  /\ UNCHANGED nonPayVars

\* getUSDCBalance resolves (lines 142-162): up to a throw or to the await of
\* createERC3009Signature.
BalanceResolve(k, balance) ==
  /\ purchases[k].pc = "balance"
  /\ LET requiredAmount == RequiredAmount(purchases[k].price)
     IN purchases' =
          [purchases EXCEPT ![k] =
             IF requiredAmount.threw
               THEN [@ EXCEPT !.pc = "threw", !.balanceRead = TRUE,
                              !.balance = balance, !.error = "RangeError"]
             ELSE IF balance < requiredAmount.amount
               THEN [@ EXCEPT !.pc = "threw", !.balanceRead = TRUE,
                              !.balance = balance, !.error = "Insufficient balance"]
             ELSE [@ EXCEPT !.pc = "sign", !.balanceRead = TRUE,
                            !.balance = balance, !.signatures = @ + 1]]
  /\ UNCHANGED nonPayVars

\* createERC3009Signature resolves (lines 154-195): the request with the
\* X-PAYMENT header is sent.
SignResolve(k) ==
  /\ purchases[k].pc = "sign"
  /\ purchases' = [purchases EXCEPT ![k].pc = "paid", ![k].paidRequests = @ + 1]
  /\ UNCHANGED nonPayVars

\* An awaited call of the wallet manager or of axios rejects: the rejection
\* leaves purchaseInference.
PortReject(k) ==
  /\ purchases[k].pc \in {"initial", "balance", "sign", "paid"}
  /\ purchases' = [purchases EXCEPT ![k].pc = "threw", ![k].error = "port"]
  /\ UNCHANGED nonPayVars

\* The paid request resolves (lines 197-229).
PaidResolve(k, paymentResponse) ==
  /\ purchases[k].pc = "paid"
  /\ purchases' =
       [purchases EXCEPT ![k] =
          IF paymentResponse = "none"
            THEN [@ EXCEPT !.pc = "threw", !.error = "No payment response header"]
          ELSE IF paymentResponse = "error"
            THEN [@ EXCEPT !.pc = "threw", !.error = "Payment failed"]
          ELSE [@ EXCEPT !.pc = "returned",
                         !.cost = RequiredAmount(purchases[k].price).amount]]
  /\ UNCHANGED nonPayVars

\* ------------------------------------------------------------------------
\* expressGenome with conditional genes (adaptiveMutation.ts:595-779) and
\* expressGenomeEnhanced (part_004:423-532), for genomes without regulatory
\* edges.  Gene values and weights are in hundredths, expressed values of
\* this section in thousandths, ages in days.
\* ------------------------------------------------------------------------
NoCondition == [varName |-> "", operator |-> "", value |-> 0]

\* evaluateCondition, on the three parts condition.split gives.  The value
\* of a day counter is in half days, as the counters of the environment.
evaluateCondition(condition, environment) ==
  IF condition = NoCondition THEN TRUE
  ELSE IF condition.varName = "mode"
    THEN environment.currentMode = condition.value
  ELSE IF condition.varName \notin {"balance", "starving", "thriving"} THEN TRUE
  ELSE LET envValue == CASE condition.varName = "balance" -> environment.balanceUSDC
                         [] condition.varName = "starving" -> environment.daysStarving
                         [] OTHER -> environment.daysThriving
       IN CASE condition.operator = ">"  -> envValue > condition.value
            [] condition.operator = "<"  -> envValue < condition.value
            [] condition.operator = ">=" -> envValue >= condition.value
            [] condition.operator = "<=" -> envValue <= condition.value
            [] condition.operator = "="  -> envValue = condition.value
            [] OTHER -> TRUE

\* stored.genes[i].expressionState = SILENCED, for the gene i whose
\* condition is false
expressGenomeInPlace(stored, environment) ==
  LET isOff(i) == /\ stored.genes[i].expressionState = "conditional"
                  /\ ~evaluateCondition(stored.genes[i].activationCondition, environment)
      written == [stored EXCEPT !.genes =
                    [i \in 1..Len(stored.genes) |->
                       IF isOff(i) THEN [stored.genes[i] EXCEPT !.expressionState = "silenced"]
                       ELSE stored.genes[i]]]
  IN [given |-> written,
      genes |-> [i \in 1..Len(stored.genes) |->
                   [id |-> stored.genes[i].id,
                    expressionState |-> written.genes[i].expressionState,
                    expressedValue |->
                      10 * ExpressedValue(written.genes[i], stored.epigenome)]]]

\* expressGenome(genome, environment): the genome it was given as the call
\* leaves it, and the expressed genes it returns.
expressGenomeOf(stored, environment) ==
  LET expressionState(i) ==
        IF /\ stored.genes[i].expressionState = "conditional"
           /\ ~evaluateCondition(stored.genes[i].activationCondition, environment)
        THEN "silenced" ELSE stored.genes[i].expressionState
  IN [given |-> stored,
      genes |-> [i \in 1..Len(stored.genes) |->
                   [id |-> stored.genes[i].id,
                    expressionState |-> expressionState(i),
                    expressedValue |->
                      10 * ExpressedValue(
                              [stored.genes[i] EXCEPT !.expressionState = expressionState(i)],
                              stored.epigenome)]]]

calculateDevelopmentalStage(age) ==
  IF age < 7 THEN "NEONATE"
  ELSE IF age < 30 THEN "JUVENILE"
  ELSE IF age < 90 THEN "ADULT" ELSE "SENESCENT"

DEFAULT_CRITICAL_WINDOWS ==
  << [domain |-> "LEARNING", startAge |-> 0, endAge |-> 7, plasticityMultiplier |-> 150],
     [domain |-> "COOPERATION", startAge |-> 0, endAge |-> 14, plasticityMultiplier |-> 130],
     [domain |-> "MATE_SELECTION", startAge |-> 3, endAge |-> 21, plasticityMultiplier |-> 120],
     [domain |-> "RISK_ASSESSMENT", startAge |-> 7, endAge |-> 30, plasticityMultiplier |-> 140] >>

\* calculateDevelopmentalModifier(gene, createDevelopmentalState(age)), in
\* 1/10000.  No gene of the model has a name with 'resilience' or 'repair'.
calculateDevelopmentalModifier(gene, age) ==
  LET stage == calculateDevelopmentalStage(age)
      Times(m, cond, factor) == IF cond THEN (m * factor) \div 100 ELSE m
      staged ==
        CASE stage = "NEONATE" ->
               Times(Times(Times(10000, gene.domain = "LEARNING", 150),
                           gene.domain = "COOPERATION", 130),
                     gene.domain = "METABOLISM", 90)
          [] stage = "JUVENILE" ->
               Times(Times(Times(10000, gene.domain = "ADAPTATION", 130),
                           gene.domain = "NOVELTY_SEEKING", 140),
                     gene.name = "planning_horizon", 80)
          [] stage = "ADULT" ->
               Times(Times(Times(10000, gene.domain = "MATE_SELECTION", 130),
                           gene.domain = "PARENTAL_INVESTMENT", 120),
                     age < 60, 110)
          [] OTHER ->
               Times(Times(10000, gene.domain = "METABOLISM", 85),
                     gene.domain = "MEMORY", 90)
      windows == {k \in 1..Len(DEFAULT_CRITICAL_WINDOWS) :
                    /\ DEFAULT_CRITICAL_WINDOWS[k].domain = gene.domain
                    /\ age >= DEFAULT_CRITICAL_WINDOWS[k].startAge
                    /\ age <= DEFAULT_CRITICAL_WINDOWS[k].endAge}
  IN IF windows = {} THEN staged
     ELSE (staged * DEFAULT_CRITICAL_WINDOWS[CHOOSE k \in windows : TRUE].plasticityMultiplier)
            \div 100

\* applyEpistasis(genes, interactions) from interaction i on: the genes,
\* written in place.  Penetrance is in hundredths.
RECURSIVE applyEpistasis(_, _, _)
applyEpistasis(genes, interactions, i) ==
  IF i > Len(interactions) THEN genes
  ELSE
    LET interaction == interactions[i]
        Index(id) == {k \in 1..Len(genes) : genes[k].id = id}
        rest(written) == applyEpistasis(written, interactions, i + 1)
    IN IF Index(interaction.epistaticGene) = {} \/ Index(interaction.hypostaticGene) = {}
       THEN rest(genes)
       ELSE
         LET e == CHOOSE k \in Index(interaction.epistaticGene) :
                    \A j \in Index(interaction.epistaticGene) : j <= k
             h == CHOOSE k \in Index(interaction.hypostaticGene) :
                    \A j \in Index(interaction.hypostaticGene) : j <= k
             eValue == genes[e].expressedValue
             hValue == genes[h].expressedValue
             penetrance == interaction.penetrance
             Scaled(x, factor) == (x * factor) \div 1000
             synergy == 1000 + (penetrance * eValue * hValue) \div 100000
         IN CASE interaction.relationship = "dominant" ->
                   rest(IF eValue > 500
                        THEN [genes EXCEPT ![h].expressedValue =
                                Scaled(@, 1000 - (penetrance * (eValue - 500) * 2) \div 100)]
                        ELSE genes)
              [] interaction.relationship = "recessive" ->
                   rest(IF eValue < 300
                        THEN [genes EXCEPT ![h].expressedValue =
                                Scaled(@, 1000 + (penetrance * (300 - eValue) * 2) \div 100)]
                        ELSE [genes EXCEPT ![h].expressedValue =
                                Scaled(@, 1000 - (penetrance * (eValue - 300)) \div 100)])
              [] interaction.relationship = "suppressive" ->
                   rest(IF eValue > 500
                        THEN [genes EXCEPT ![h].expressionState = "silenced",
                                           ![h].expressedValue = 0]
                        ELSE genes)
              [] interaction.relationship = "synergistic" ->
                   rest(IF eValue > 300 /\ hValue > 300
                        THEN [[genes EXCEPT ![h].expressedValue = Scaled(@, synergy)]
                                EXCEPT ![e].expressedValue = Scaled(@, synergy)]
                        ELSE genes)
              [] interaction.relationship = "antagonistic" ->
                   rest(IF eValue > 500
                        THEN [genes EXCEPT ![h].expressedValue =
                                Scaled(@, 1000 - (penetrance * eValue) \div 100)]
                        ELSE IF hValue > 500
                        THEN [genes EXCEPT ![e].expressedValue =
                                Scaled(@, 1000 - (penetrance * hValue) \div 100)]
                        ELSE genes)
              [] OTHER -> rest(genes)

\* expressGenomeEnhanced(genome, environment, age, currentTime,
\* epistasisInteractions): the expressed genes.  Without regulatory edges
\* every regulatoryEffect is 1.0.
expressGenomeEnhanced(stored, age, epistasisInteractions) ==
  LET initial(i) == (stored.genes[i].value * stored.genes[i].weight
                       * calculateDevelopmentalModifier(stored.genes[i], age))
                    \div 100000
      allGenes == [i \in 1..Len(stored.genes) |->
                     [id |-> stored.genes[i].id,
                      expressionState |-> stored.genes[i].expressionState,
                      expressedValue |->
                        IF stored.genes[i].expressionState # "silenced"
                        THEN Max(0, Min(3000, initial(i)))
                        ELSE initial(i)]]
  IN IF Len(epistasisInteractions) > 0
     THEN applyEpistasis(allGenes, epistasisInteractions, 1)
     ELSE allGenes

\* The genomes expression is asked for: an active gene, a silenced gene and
\* a conditional gene that is on after more than three days of starvation;
\* the second genome carries a mark on the conditional gene.
ExpressionGenes ==
  << [id |-> "e1", name |-> "learning_rate", domain |-> "LEARNING",
      value |-> 90, weight |-> 200, plasticity |-> 50, metabolicCost |-> 100,
      expressionState |-> "active", activationCondition |-> NoCondition],
     [id |-> "e2", name |-> "agent_cooperation", domain |-> "COOPERATION",
      value |-> 50, weight |-> 100, plasticity |-> 50, metabolicCost |-> 100,
      expressionState |-> "silenced", activationCondition |-> NoCondition],
     [id |-> "e3", name |-> "starvation_resistance", domain |-> "METABOLISM",
      value |-> 80, weight |-> 100, plasticity |-> 50, metabolicCost |-> 100,
      expressionState |-> "conditional",
      activationCondition |-> [varName |-> "starving", operator |-> ">", value |-> 6]] >>

ExpressionGenomes ==
  << [genes |-> ExpressionGenes, epigenome |-> << >>],
     [genes |-> ExpressionGenes,
      epigenome |-> << [targetGeneId |-> "e3", modification |-> "activate",
                        strength |-> 5000, cause |-> "manual", heritability |-> 3000,
                        decay |-> 20, generationCreated |-> 0] >>] >>

ExpressionEnvironments ==
  { StarvingEnvironment, [StarvingEnvironment EXCEPT !.daysStarving = 14] }

AgeInputs == {0, 40}

EpistasisInputs ==
  { << >>,
    << [epistaticGene |-> "e1", hypostaticGene |-> "e3",
        relationship |-> "synergistic", penetrance |-> 50] >>,
    << [epistaticGene |-> "e1", hypostaticGene |-> "e3",
        relationship |-> "dominant", penetrance |-> 100] >>,
    << [epistaticGene |-> "e3", hypostaticGene |-> "e1",
        relationship |-> "suppressive", penetrance |-> 100],
       [epistaticGene |-> "e2", hypostaticGene |-> "e3",
        relationship |-> "antagonistic", penetrance |-> 50],
       [epistaticGene |-> "e2", hypostaticGene |-> "e3",
        relationship |-> "recessive", penetrance |-> 50] >> }

\* expressGenome(genome, environment) on the genome g
ExpressGenome(g, environment) ==
  LET call == expressGenomeOf(givenGenomes[g], environment)
  IN /\ Len(expressions) < MaxExpressions
     /\ givenGenomes' = [givenGenomes EXCEPT ![g] = call.given]
     /\ expressions' = Append(expressions,
                          [enhanced |-> FALSE, g |-> g, given |-> givenGenomes[g],
                           environment |-> environment, genes |-> call.genes])
     /\ UNCHANGED nonExprVars

\* expressGenomeEnhanced(genome, environment, age, Date.now(), interactions)
\* on the genome g
ExpressGenomeEnhanced(g, environment, age, interactions) ==
  /\ Len(expressions) < MaxExpressions
  /\ expressions' = Append(expressions,
                       [enhanced |-> TRUE, g |-> g, given |-> givenGenomes[g],
                        environment |-> environment,
                        genes |-> expressGenomeEnhanced(givenGenomes[g], age, interactions)])
  /\ UNCHANGED givenGenomes
  /\ UNCHANGED nonExprVars

\* ------------------------------------------------------------------------
\* Runs of breed(context, config) (part_006:651-737).  breed takes no
\* generator: each draw is a secureRandom() of its own.
\* ------------------------------------------------------------------------
BreedRunInputs == { <<1, 2>>, <<2, 1>> }

\* breed({parentA, parentB, ...}) returns
BreedRun(a, b) ==
  /\ Len(breedRuns) < MaxBreedRuns
  /\ breed(population[a], population[b], FALSE, rareDraws, bred')
  /\ rareDraws' = bred'.rare
  /\ breedRuns' = Append(breedRuns,
                     [a |-> a, b |-> b, threw |-> bred'.threw,
                      childGenome |-> bred'.childGenome,
                      mutations |-> <<bred'.crossed, bred'.duplicated, bred'.pruned,
                                      bred'.final>>])
  /\ UNCHANGED <<population, breeding, enhanced, hgt, evolutions, breedings,
                 breedingResult>>
  /\ UNCHANGED <<survVars, decVars, cacheVars, epiVars, percVars, payVars, exprVars,
                 coopVars, hashVars>>

\* ------------------------------------------------------------------------
\* Breeding between relatives of which one carries a translocation.  The
\* genome of the first has the two non-essential chromosomes C and D of the
\* genesis genome (part_005:189-320), cut to two genes each; the second is
\* what applyChromosomalTranslocation makes of it when it swaps the tails
\* of C and D after their first genes.
\* ------------------------------------------------------------------------
C002 == createGene("C002", "time_preference", "RESOURCE_MANAGEMENT", 50, 90, 40, 5, 30)
D001 == createGene("D001", "onchain_affinity", "ONCHAIN_OPERATION", 50, 90, 50, 10, 50)
D002 == createGene("D002", "defi_comprehension", "ONCHAIN_OPERATION", 30, 70, 20, 15, 60)

KinChromosomes ==
  << Chromosome("chr-C", "Economic Strategy", FALSE, << Aged(C001, 1), Aged(C002, 1) >>),
     Chromosome("chr-D", "Internet Capabilities", FALSE,
                << Aged(D001, 1), Aged(D002, 1) >>) >>

KinTranslocated ==
  (CHOOSE t \in applyChromosomalTranslocation(KinChromosomes, 0) :
     /\ t.chromosomes[1].genes = << Aged(C001, 1), Aged(D002, 1) >>
     /\ t.chromosomes[2].genes = << Aged(D001, 1), Aged(C002, 1) >>).chromosomes

KinGenomes ==
  << MakeGenome(1, "lineage-1", KinChromosomes, << >>, << >>),
     MakeGenome(1, "lineage-2", KinTranslocated, << >>, << >>) >>

KinInputs == { <<1, 1>>, <<1, 2>> }

\* breed is called with the genomes of the relatives a and b.
BreedKin(a, b) ==
  /\ breedings < MaxBreedings
  /\ breed(KinGenomes[a], KinGenomes[b], FALSE, rareDraws, bred')
  /\ rareDraws' = bred'.rare
  /\ breedings' = breedings + 1
  /\ UNCHANGED <<population, breeding, breedingResult, enhanced, hgt, evolutions>>
  /\ UNCHANGED nonEvoVars

\* breedEnhanced is called with the genomes of the relatives a and b.
BreedEnhancedKin(a, b) ==
  /\ breedings < MaxBreedings
  /\ breedEnhanced(KinGenomes[a], KinGenomes[b], FALSE, rareDraws, bred', enhanced')
  /\ rareDraws' = enhanced'.rare
  /\ breedings' = breedings + 1
  /\ UNCHANGED <<population, breeding, breedingResult, hgt, evolutions>>
  /\ UNCHANGED nonEvoVars

\* ------------------------------------------------------------------------
\* The cooperation ledger of the EvolutionManager (Evolution.ts:88,
\* 387-397).  Agent ids are strings; hours are in hundredths.
\* ------------------------------------------------------------------------
\* The agents, in the ascending order of Array.prototype.sort on strings.
CooperationAgents == << "alpha", "alpha-beta", "beta-gamma", "gamma" >>

InteractionCounts == {1, 2}

AgentRank(agent) == CHOOSE i \in 1..Len(CooperationAgents) : CooperationAgents[i] = agent

\* [agentA, agentB].sort().join('-')
CoopKey(agentA, agentB) ==
  IF AgentRank(agentA) <= AgentRank(agentB)
  THEN agentA \o "-" \o agentB
  ELSE agentB \o "-" \o agentA

\* recordCooperation(agentA, agentB, interactionCount)
RecordCooperation(agentA, agentB, interactionCount) ==
  /\ Len(coopCalls) < MaxCooperationCalls
  /\ LET coopKey == CoopKey(agentA, agentB)
     IN cooperationLog' =
          IF MapHas(cooperationLog, coopKey)
          THEN LET existing == MapGet(cooperationLog, coopKey)
               IN MapSet(cooperationLog,
                         [existing EXCEPT !.hours = @ + 17,
                                          !.interactions = @ + interactionCount])
          ELSE MapSet(cooperationLog,
                      [key |-> coopKey, hours |-> 17, interactions |-> interactionCount])
  /\ coopCalls' = Append(coopCalls, [agentA |-> agentA, agentB |-> agentB,
                                     interactionCount |-> interactionCount])
  /\ UNCHANGED <<survVars, decVars, cacheVars, evoVars, epiVars, percVars, payVars,
                 exprVars, runVars, hashVars>>

\* ------------------------------------------------------------------------
\* The genome hash (part_006:711-716, 754-758) of genomes that differ from
\* the first agent's genome in the order of the regulatory edges, in numeric
\* fields only, or in the edges themselves.
\* ------------------------------------------------------------------------
HashGenomes ==
  << BreedGenomes[1],
     [BreedGenomes[1] EXCEPT !.regulatoryNetwork = Reverse(@)],
     [BreedGenomes[1] EXCEPT !.chromosomes[1].genes[1].value = 70,
                             !.chromosomes[3].genes[1].weight = 110,
                             !.regulatoryNetwork[1].strength = 10],
     [BreedGenomes[1] EXCEPT !.regulatoryNetwork = Tail(@)] >>

\* The hash of the genomes a and b is computed as breed computes it.
HashGenomePair(a, b) ==
  /\ Len(hashLog) < MaxHashCalls
  /\ hashLog' = Append(hashLog,
                   [a |-> a, b |-> b,
                    hashA |-> GenomeHash(HashGenomes[a].chromosomes,
                                         HashGenomes[a].regulatoryNetwork),
                    hashB |-> GenomeHash(HashGenomes[b].chromosomes,
                                         HashGenomes[b].regulatoryNetwork)])
  /\ UNCHANGED <<survVars, decVars, cacheVars, evoVars, epiVars, percVars, payVars,
                 exprVars, runVars, coopVars>>

\* The state after construction of the SurvivalManager, of the
\* DecisionEngine, of the ExpressionCache and of the agents.
Init ==
  /\ isRunning = FALSE
  /\ survivalTimer = [ref |-> FALSE, orphans |-> 0]
  /\ dailyInscriptionTimer = [ref |-> FALSE, orphans |-> 0]
  /\ cycleCount = 0
  /\ status = [status |-> "ALIVE", mode |-> "NORMAL",
               balance |-> [eth |-> 0, usdc |-> 0], lastCheckIn |-> 0]
  /\ genome = << >>
  /\ expressedGenome = [isNull |-> TRUE, totalMetabolicCost |-> 0]
  /\ daysStarving = 0
  /\ daysThriving = 0
  /\ recentDeceptions = 0
  /\ thoughts = << >>
  /\ transactions = << >>
  /\ cycles = [c \in 1..MaxCycles |-> NoCycle]
  /\ inscriptions = [i \in 1..MaxInscriptions |-> NoInscription]
  /\ retired = << >>
  /\ now = 0
  /\ recorded = 0
  /\ lost = {}
  /\ lastDecisionTime = 0
  /\ decisionLog = << >>
  /\ calls = [k \in 1..MaxCalls |-> NoCall]
  /\ dnow = StartTime
  /\ cache = << >>
  /\ accessOrder = << >>
  /\ pendingComputations = {}
  /\ cacheNow = 0
  /\ exprCalls = [r \in 1..MaxExprCalls |-> NoExprCall]
  /\ batches = [b \in 1..MaxBatches |-> NoBatch]
  /\ accessCount = 0
  /\ lastEvict = NoEvict
  /\ lastInvalidate = NoInvalidate
  /\ population = BreedGenomes
  /\ breeding = NoBreeding
  /\ bred = NoBred
  /\ breedingResult = NoOutcome
  /\ enhanced = NoEnhanced
  /\ hgt = NoHGT
  /\ evolutions = 0
  /\ breedings = 0
  /\ rareDraws = 0
  /\ epigenomes = EpigenomeGenomes
  /\ epiLog = << >>
  /\ perceived = NoPerceived
  /\ filterCall = NoFilterCall
  /\ purchases = [k \in 1..MaxPurchases |-> NoPurchase]
  /\ givenGenomes = ExpressionGenomes
  /\ expressions = << >>
  /\ breedRuns = << >>
  /\ cooperationLog = << >>
  /\ coopCalls = << >>
  /\ hashLog = << >>

\* ------------------------------------------------------------------------
\* Specifications
\* ------------------------------------------------------------------------
SurvNext ==
  \/ StartSurvivalLoop
  \/ SurvivalTimerFire
  \/ \E c \in 1..MaxCycles : BalanceFail(c)
  \/ \E c \in 1..MaxCycles : \E b \in BalanceInputs : BalanceReturn(c, b)
  \/ \E c \in 1..MaxCycles : \E a \in ActionInputs : DecideReturn(c, a)
  \/ \E c \in 1..MaxCycles : DecideThrow(c)
  \/ \E c \in 1..MaxCycles : DispatchThrow(c)
  \/ \E c \in 1..MaxCycles : ExecReturn(c)
  \/ Stop
  \/ DailyTimerFire
  \/ \E i \in 1..MaxInscriptions : InscriberReads(i)
  \/ \E i \in 1..MaxInscriptions : InscribeResolve(i)
  \/ \E i \in 1..MaxInscriptions : InscribeReject(i)
  \/ Tick

\* The survival loop of one SurvivalManager.
Spec == Init /\ [][SurvNext]_vars

DecNext ==
  \/ \E k \in 1..MaxCalls : \E p \in 1..Len(PerceptionInputs) : Decide(k, p)
  \/ \E k \in 1..MaxCalls : SleepReturn(k)
  \/ \E k \in 1..MaxCalls : \E r \in ReplyInputs : LLMResolve(k, r)
  \/ \E k \in 1..MaxCalls : LLMReject(k)
  \/ DTick

\* One DecisionEngine and the callers of decide().
DecisionSpec == Init /\ [][DecNext]_vars

CacheNext ==
  \/ \E r \in 1..MaxExprCalls : \E request \in ExpressInputs :
       CachedExpressCall(r, request.g, request.e)
  \/ \E r \in 1..MaxExprCalls : CachedExpressResolve(r)
  \/ \E criteria \in InvalidateInputs : Invalidate(criteria)
  \/ CleanupExpired
  \/ \E r \in 1..MaxExprCalls : \E request \in PrefetchInputs :
       PrefetchCall(r, request.g, request.e)
  \/ \E r \in 1..MaxExprCalls : PrefetchResolve(r)
  \/ \E r \in 1..MaxExprCalls : PrefetchReject(r)
  \/ Clear
  \/ CacheTick

\* One ExpressionCache and the callers of cachedExpressGenome and invalidate.
CacheSpec == Init /\ [][CacheNext]_vars

BatchNext ==
  \/ \E b \in 1..MaxBatches : \E requests \in BatchInputs : GetBatch(b, requests)
  \/ \E p \in pendingComputations : BatchResolve(p)
  \/ \E p \in pendingComputations : BatchReject(p)

\* One BatchExpressionCache on an ExpressionCache, and the callers of getBatch.
BatchSpec == Init /\ [][BatchNext]_vars

EvolutionNext ==
  \/ \E pair \in BreedingInputs : \E stress \in StressInputs :
       ExecuteBreeding(pair[1], pair[2], stress)
  \/ \E pair \in EnhancedInputs : BreedEnhanced(pair[1], pair[2], FALSE)
  \/ \E pair \in HGTInputs : \E cooperation \in CooperationInputs :
       PerformHGT(pair[1], pair[2], cooperation)
  \/ \E a \in 1..Len(BreedGenomes) : EpigenomeTick(a)

\* One EvolutionManager and the agents whose genomes it breeds.
EvolutionSpec == Init /\ [][EvolutionNext]_vars

EpigenomeNext ==
  \/ \E a \in 1..Len(EpigenomeGenomes) : \E env \in EpigenomeEnvironments :
       UpdateEpigenome(a, env)
  \/ \E a \in 1..Len(EpigenomeGenomes) : \E options \in ManualMarkInputs :
       AddEpigeneticMark(a, options)
  \/ \E a \in 1..Len(EpigenomeGenomes) : \E geneId \in {"g1", "g3"} :
       RemoveEpigeneticMark(a, geneId)
  \/ \E pair \in InheritInputs : InheritEpigenome(pair[1], pair[2])

\* The callers of the epigenome operations on three genomes.
EpigenomeSpec == Init /\ [][EpigenomeNext]_vars

PerceptionNext ==
  \/ \E b \in 1..Len(BalanceProbes) : Perceive(b)
  \/ \E g \in 1..Len(FilterGenomes) : Filter(g)

\* The balance queries of the survival cycles and the calls of
\* filterStrategies that follow them.
PerceptionSpec == Init /\ [][PerceptionNext]_vars

PaymentNext ==
  \/ \E k \in 1..MaxPurchases : PurchaseInference(k)
  \/ \E k \in 1..MaxPurchases : \E response \in InitialResponses :
       \E hasWallet \in BOOLEAN : InitialResolve(k, response, hasWallet)
  \/ \E k \in 1..MaxPurchases : \E balance \in USDCBalances : BalanceResolve(k, balance)
  \/ \E k \in 1..MaxPurchases : SignResolve(k)
  \/ \E k \in 1..MaxPurchases : \E response \in PaidResponses : PaidResolve(k, response)
  \/ \E k \in 1..MaxPurchases : PortReject(k)

\* One X402Client and the callers of purchaseInference.
PaymentSpec == Init /\ [][PaymentNext]_vars

ExpressionNext ==
  \/ \E g \in 1..Len(ExpressionGenomes) : \E environment \in ExpressionEnvironments :
       ExpressGenome(g, environment)
  \/ \E g \in 1..Len(ExpressionGenomes) : \E age \in AgeInputs :
       \E interactions \in EpistasisInputs :
         ExpressGenomeEnhanced(g, StarvingEnvironment, age, interactions)

\* The callers of expressGenome and of expressGenomeEnhanced.
ExpressionSpec == Init /\ [][ExpressionNext]_vars

BreedRunNext == \E pair \in BreedRunInputs : BreedRun(pair[1], pair[2])

\* The callers of breed.
BreedRunSpec == Init /\ [][BreedRunNext]_vars

\* ------------------------------------------------------------------------
\* Properties
\* ------------------------------------------------------------------------

\* C1: a survival cycle never begins while an earlier cycle of the same
\* agent is still unfinished: at most one cycle is suspended at an await.
C1_NoInterleavedCycles ==
  Cardinality({c \in 1..MaxCycles : cycles[c].pc \in Suspended}) <= 1

\* C2: after stop() on a running loop no further cycle is started, and a
\* cycle that was suspended at the call takes no further step: when its
\* suspension returns it can only end.
C2_StopEndsCycles ==
  [][/\ (cycleCount' # cycleCount => isRunning')
     /\ \A c \in 1..MaxCycles :
          (cycles[c].stopPc # "none" /\ cycles'[c].pc # cycles[c].pc)
            => cycles'[c].pc = "failed"]_vars

\* C3: while the loop is started and not stopped, a cycle that fails with an
\* error (the first cycle included) leaves a next cycle scheduled.
C3_FailedCycleReschedules ==
  [][\A c \in 1..MaxCycles :
       (isRunning /\ cycles[c].pc \in Suspended /\ cycles'[c].pc = "failed")
         => survivalTimer'.ref]_vars

\* C4: a cycle marks the agent dead exactly when the USDC balance of that
\* cycle is below the hibernation threshold: a cycle with 0.5 USDC or more
\* does not mark it dead.
C4_DeadOnlyBelowHibernation ==
  [][\A c \in 1..MaxCycles :
       (cycles[c].pc = "exec" /\ cycles'[c].pc = "done" /\ status.status # "DEAD")
         => (status'.status = "DEAD"
               <=> cycles[c].balances.usdc < HIBERNATION_THRESHOLD)]_vars

\* C5: clearing the buffers after an inscription never discards an entry that
\* was not in the arguments of that inscription call.
C5_NoEntryLost == lost = {}

\* C6: when the balance query fails, status, genome with its epigenome and
\* the environment counters are what they were when that cycle began.
C6_FailedCycleKeepsState ==
  [][\A c \in 1..MaxCycles :
       (cycles[c].pc = "balance" /\ cycles'[c].pc = "failed")
         => Snapshot' = cycles[c].pre]_vars

\* C7: decide() never waits on the LLM port longer than maxDeliberationTime.
C7_DeliberationBounded ==
  \A k \in 1..MaxCalls :
    calls[k].pc = "llm" => dnow - calls[k].llmAt <= maxDeliberationTime

\* C8: any two decide() calls pass the rate limiter at times at least
\* minDecisionInterval apart.
C8_RateLimited ==
  \A j, k \in 1..MaxCalls :
    (j < k /\ calls[j].pc \in {"llm", "done"} /\ calls[k].pc \in {"llm", "done"})
      => \/ calls[k].passedAt - calls[j].passedAt >= minDecisionInterval
         \/ calls[j].passedAt - calls[k].passedAt >= minDecisionInterval

\* a > b on priorities, as JavaScript compares numbers: false with a NaN.
Greater(a, b) == a # NaN /\ b # NaN /\ a > b

\* No strategy of the list has a priority above that of the strategy id.
TopPriority(id, list) ==
  \E k \in 1..Len(list) :
    /\ list[k].id = id
    /\ \A j \in 1..Len(list) : ~Greater(list[j].priority, list[k].priority)

StrategyIds(list) == {list[k].id : k \in 1..Len(list)}

\* C9: every decision selects a strategy of the candidate list (the top 7 of
\* the filter), the top-priority candidate when the LLM names an id outside
\* the list, or emergency-survival with enter-dormancy when the list is empty.
C9_DecisionWithinCandidates ==
  \A k \in 1..MaxCalls :
    calls[k].pc = "done" =>
      LET available == AvailableStrategies(calls[k].perception)
          decision == calls[k].decision
      IN IF Len(available) = 0
         THEN /\ decision.selectedStrategy = "emergency-survival"
              /\ decision.selectedAction = "ENTER_DORMANCY"
         ELSE /\ decision.selectedStrategy \in StrategyIds(available)
              /\ (decision.reasoning = "llm"
                    /\ calls[k].response \notin StrategyIds(available))
                   => TopPriority(decision.selectedStrategy, available)

\* C10: when the LLM call fails the decision selects the highest-priority
\* filtered strategy with confidence 0.4, and every fallback decision has
\* confidence at most 0.4.
C10_FallbackOnTopStrategy ==
  \A k \in 1..MaxCalls :
    (calls[k].pc = "done" /\ calls[k].decision.reasoning # "llm") =>
      /\ calls[k].decision.confidence <= 4000
      /\ calls[k].decision.reasoning = "LLM decision failed" =>
           /\ calls[k].decision.confidence = 4000
           /\ TopPriority(calls[k].decision.selectedStrategy,
                          filterStrategies(PerceptionInputs[calls[k].perception]))

\* C11: a result that cachedExpressGenome returns from the cache is the
\* expression of the genome it was called with, in its current state (the
\* epigenome included), under the environment it was called with.
C11_CachedEqualsComputed ==
  \A r \in 1..MaxExprCalls :
    (exprCalls[r].pc = "done" /\ exprCalls[r].fromCache)
      => Expression(exprCalls[r].result)
           = Expression([g |-> exprCalls[r].g, e |-> exprCalls[r].e])

\* C12: the entry that set() evicts from a full cache is the one whose most
\* recent access, by a get hit or by a set, is the oldest.
C12_EvictsLeastRecentlyUsed ==
  lastEvict.happened => lastEvict.evictedAccess = lastEvict.oldestAccess

\* C13: invalidate(criteria) removes every entry that matches a supplied
\* criterion (its genome hash begins with the prefix, it is older than the
\* age, or it was hit fewer times than the number), keeps every other entry,
\* and returns the number removed.
C13_InvalidateRemovesMatching ==
  LET criteria == lastInvalidate.criteria
      Matches(entry) ==
        \/ /\ "genomeHash" \in criteria.supplied
           /\ Len(criteria.genomeHash) <= Len(entry.genomeHash)
           /\ SubSeq(entry.genomeHash, 1, Len(criteria.genomeHash))
                = criteria.genomeHash
        \/ /\ "olderThan" \in criteria.supplied
           /\ lastInvalidate.at - entry.timestamp > criteria.olderThan
        \/ /\ "lowHitCount" \in criteria.supplied
           /\ entry.hitCount < criteria.lowHitCount
  IN lastInvalidate.count > 0 =>
       /\ lastInvalidate.after
            = SelectSeq(lastInvalidate.before, LAMBDA x : ~Matches(x))
       /\ lastInvalidate.returned
            = Len(lastInvalidate.before) - Len(lastInvalidate.after)

\* C14: while a computation is pending, no second computation is started for
\* a genome and environment that the cache does not distinguish from it, and
\* every request of a batch receives a result computed for a genome and
\* environment that the cache does not distinguish from its own.
C14_OneComputationPerKey ==
  /\ \A p, q \in pendingComputations :
       generateCacheKey(CacheGenomes[p.g], CacheEnvironments[p.e])
         = generateCacheKey(CacheGenomes[q.g], CacheEnvironments[q.e])
       => p = q
  /\ \A b \in 1..MaxBatches : \A i \in 1..Len(batches[b].results) :
       batches[b].results[i] # NoResult =>
         generateCacheKey(CacheGenomes[batches[b].results[i].g],
                          CacheEnvironments[batches[b].results[i].e])
           = generateCacheKey(CacheGenomes[batches[b].requests[i].g],
                              CacheEnvironments[batches[b].requests[i].e])

\* ------------------------------------------------------------------------
\* Properties of breeding and gene transfer, checked under EvolutionSpec
\* ------------------------------------------------------------------------

\* C16: in the child of a breeding, the source and the target of every
\* regulatory edge are ids of genes the child's chromosomes hold.
C16_EdgesReferToPresentGenes ==
  breeding.pc = "done" =>
    \A e \in 1..Len(breedingResult.childGenome.regulatoryNetwork) :
      LET edge == breedingResult.childGenome.regulatoryNetwork[e]
          present == GeneIds(breedingResult.childGenome.chromosomes)
      IN edge.sourceGeneId \in present /\ edge.targetGeneId \in present

\* C17: when the essential chromosomes of both parents hold genes, no
\* essential chromosome is left without genes after crossover, after
\* duplication, after deletion, after de novo birth, or in the child.
C17_EssentialChromosomesKeepGenes ==
  LET NonEmpty(chromosomes) ==
        \A c \in 1..Len(chromosomes) :
          chromosomes[c].isEssential => Len(chromosomes[c].genes) > 0
  IN (/\ breeding.pc = "done"
      /\ NonEmpty(breeding.parentA.chromosomes)
      /\ NonEmpty(breeding.parentB.chromosomes))
     => /\ NonEmpty(breedingResult.crossed)
        /\ NonEmpty(breedingResult.duplicated)
        /\ NonEmpty(breedingResult.pruned)
        /\ NonEmpty(breedingResult.final)
        /\ NonEmpty(breedingResult.childGenome.chromosomes)

\* C18: the deletion stage of a breeding, in normal and in starvation mode,
\* keeps every gene whose essentiality is at least 0.8.
C18_DeletionKeepsEssentialGenes ==
  breeding.pc = "done" =>
    \A c \in 1..Len(breedingResult.duplicated) :
      \A g \in 1..Len(breedingResult.duplicated[c].genes) :
        LET gene == breedingResult.duplicated[c].genes[g]
        IN gene.essentiality >= 80 =>
             Has(breedingResult.pruned[c].genes, gene.id)

\* C19: in every genome returned by breed, by breedEnhanced or by performHGT,
\* meta.totalGenes is the number of genes of the genome and meta.genomeHash
\* is the hash of its final gene-id lists and edges; the generation of a
\* bred child is the larger of its parents' generations plus one.
C19_MetadataMatchesGenome ==
  LET Consistent(g) ==
        /\ g.meta.totalGenes = Len(FlatGenes(g.chromosomes))
        /\ g.meta.genomeHash = GenomeHash(g.chromosomes, g.regulatoryNetwork)
  IN /\ (breeding.pc = "done" /\ breedingResult.error = "")
          => /\ Consistent(breedingResult.childGenome)
             /\ breedingResult.childGenome.meta.generation
                  = Max(breeding.parentA.meta.generation,
                        breeding.parentB.meta.generation) + 1
     /\ enhanced # NoEnhanced => Consistent(enhanced.childGenome)
     /\ (hgt.called /\ ~hgt.threw) => Consistent(hgt.returned)

\* C15: a call of executeBreeding is atomic with respect to both parents: the
\* step in which it returns changes no genome, and the parent genomes it
\* bred are the genomes its two agents hold at that moment, so no survival
\* tick, gene transfer or other breeding has touched them since it began.
C15_BreedingIsAtomic ==
  [][breeding' # breeding =>
       /\ population' = population
       /\ breeding'.parentA = population[breeding'.a]
       /\ breeding'.parentB = population[breeding'.b]]_vars

\* A breeding has returned a child of parents that a survival tick or a gene
\* transfer had changed in an earlier turn.
C15_Witness ==
  /\ breeding.pc = "done"
  /\ breedingResult.error = ""
  /\ breeding.parentA # BreedGenomes[breeding.a]

\* C20: executeBreeding fails with the inbreeding error and produces no child
\* whenever the Jaccard similarity of the parents' gene ids exceeds 0.8.
C20_InbreedingRefused ==
  LET genesA == GeneIds(breeding.parentA.chromosomes)
      genesB == GeneIds(breeding.parentB.chromosomes)
  IN (/\ breeding.pc = "done"
      /\ 5 * Cardinality(genesA \cap genesB) > 4 * Cardinality(genesA \cup genesB))
     => /\ breedingResult.error = "inbreeding"
        /\ breedingResult.childGenome = NoGenome

\* Two different agents whose similarity is five sixths were refused.
C20_Witness ==
  /\ breeding.pc = "done"
  /\ breeding.a # breeding.b
  /\ breedingResult.error = "inbreeding"
  /\ 6 * Cardinality(GeneIds(breeding.parentA.chromosomes)
                       \cap GeneIds(breeding.parentB.chromosomes))
       = 5 * Cardinality(GeneIds(breeding.parentA.chromosomes)
                           \cup GeneIds(breeding.parentB.chromosomes))


\* ------------------------------------------------------------------------
\* Claims about the epigenome (EpigenomeSpec)
\* ------------------------------------------------------------------------
MarksOf(epigenome, geneId) ==
  SelectSeq(epigenome, LAMBDA m : m.targetGeneId = geneId)

\* The last mark of a list that targets the gene.
LastMarkOf(marks, geneId) ==
  LET targeting == MarksOf(marks, geneId) IN targeting[Len(targeting)]

\* C22: after any sequence of updateEpigenome, addEpigeneticMark,
\* removeEpigeneticMark and breeding with inheritEpigenome, starting from
\* epigenomes with at most one mark per gene, every epigenome holds at most
\* one mark per target gene, and a new mark that targets a gene replaces the
\* mark the gene had.
C22_OneMarkPerGene ==
  /\ \A a \in 1..Len(epigenomes) : \A gene \in {"g1", "g2", "g3"} :
       Len(MarksOf(epigenomes[a].epigenome, gene)) <= 1
  /\ \A k \in 1..Len(epiLog) : \A gene \in {"g1", "g2", "g3"} :
       (epiLog[k].op \in {"update", "add"}
          /\ MarksOf(epiLog[k].newMarks, gene) # << >>)
       => MarksOf(epiLog[k].after, gene)
            = << LastMarkOf(epiLog[k].newMarks, gene) >>

\* An update has replaced the manual mark of a gene by the mark of a trigger.
C22_Witness ==
  \E k \in 1..Len(epiLog) :
    /\ epiLog[k].op = "update"
    /\ MarksOf(epiLog[k].before, "g1") # << >>
    /\ MarksOf(epiLog[k].newMarks, "g1") # << >>
    /\ MarksOf(epiLog[k].before, "g1") # MarksOf(epiLog[k].after, "g1")
    /\ \E j \in 1..Len(epiLog) : epiLog[j].op = "inherit" /\ epiLog[j].after # << >>

\* C25: when updateEpigenome is called twice in a row with the same
\* environment, the second call, made on the genome the first returned,
\* reports no new marks and returns an equal epigenome.
C25_SecondUpdateIdempotent ==
  \A k \in 1..(Len(epiLog) - 1) :
    (epiLog[k].op = "update" /\ epiLog[k + 1].op = "update"
       /\ epiLog[k].agent = epiLog[k + 1].agent
       /\ epiLog[k].input = epiLog[k + 1].input)
    => /\ epiLog[k + 1].newMarks = << >>
       /\ epiLog[k + 1].after = epiLog[k].after

\* The part of C25 about the returned epigenome alone.
C25_SecondUpdateEqualEpigenome ==
  \A k \in 1..(Len(epiLog) - 1) :
    (epiLog[k].op = "update" /\ epiLog[k + 1].op = "update"
       /\ epiLog[k].agent = epiLog[k + 1].agent
       /\ epiLog[k].input = epiLog[k + 1].input)
    => epiLog[k + 1].after = epiLog[k].after


\* ------------------------------------------------------------------------
\* Claims about the operation mode and the strategy filter (PerceptionSpec)
\* ------------------------------------------------------------------------
SocialStrategies == {ALL_STRATEGIES[k].id : k \in {j \in 1..Len(ALL_STRATEGIES) :
                                                   ALL_STRATEGIES[j].category = "SOCIAL"}}

\* C26: whenever the perceived mode is emergency, every strategy that
\* filterStrategies returns as allowed is a survival strategy or a defense
\* strategy of risk level at most 0.3; no income, social, reproduction or
\* learning strategy is allowed.
C26_EmergencyAllowsSurvivalAndDefense ==
  filterCall.currentMode = "emergency"
  => \A k \in 1..Len(filterCall.result.filtered) :
       \/ filterCall.result.filtered[k].category = "SURVIVAL"
       \/ /\ filterCall.result.filtered[k].category = "DEFENSE"
          /\ filterCall.result.filtered[k].riskLevel <= 30

\* In emergency mode the filter has allowed a defense strategy and excluded
\* another strategy because of the mode.
C26_Witness ==
  /\ filterCall.currentMode = "emergency"
  /\ \E k \in 1..Len(filterCall.result.filtered) :
       filterCall.result.filtered[k].category = "DEFENSE"
  /\ \E e \in filterCall.result.exclusionReasons :
       e[2] = "Non-survival strategy excluded in emergency mode"

\* C27: for a genome whose agent_cooperation and trust_default are both 0.9
\* the filter accepts social strategies, and for the same genome with both
\* traits at 0 every social strategy is rejected with the exclusion reason
\* 'Social orientation too low'.
C27_SocialOrientationGate ==
  /\ (filterCall.genome = 1 /\ filterCall.currentMode = "normal")
     => \E k \in 1..Len(filterCall.result.filtered) :
          filterCall.result.filtered[k].category = "SOCIAL"
  /\ filterCall.genome = 2
     => \A id \in SocialStrategies :
          <<id, "Social orientation too low">> \in filterCall.result.exclusionReasons

\* The part of C27 about the genome with both traits at 0.9.
C27_SocialAccepted ==
  (filterCall.genome = 1 /\ filterCall.currentMode = "normal")
  => \E k \in 1..Len(filterCall.result.filtered) :
       filterCall.result.filtered[k].category = "SOCIAL"

\* No call of the filter excludes a strategy for its social orientation.
C27_OrientationNeverTooLow ==
  \A e \in filterCall.result.exclusionReasons : e[2] # "Social orientation too low"

\* C28: in every cycle the operation mode derived from the queried balances
\* is emergency if ETH is below 0.001; otherwise hibernation if USDC < 0.5,
\* emergency if USDC < 2, low-power if USDC < 5, and normal otherwise.
C28_ModeFromThresholds ==
  perceived # NoPerceived
  => perceived.mode =
       (IF perceived.balances.eth < 1000 THEN "EMERGENCY"
        ELSE IF perceived.balances.usdc < 500000 THEN "HIBERNATION"
        ELSE IF perceived.balances.usdc < 2000000 THEN "EMERGENCY"
        ELSE IF perceived.balances.usdc < 5000000 THEN "LOW_POWER"
        ELSE "NORMAL")

\* Balances with too little ETH and USDC below every threshold have been
\* queried, and the mode derived from them is emergency.
C28_Witness ==
  /\ perceived.probe # 0
  /\ perceived.balances.eth < 1000
  /\ perceived.balances.usdc < 500000
  /\ perceived.mode = "EMERGENCY"


\* ------------------------------------------------------------------------
\* Claims about the payment client (PaymentSpec)
\* ------------------------------------------------------------------------
\* C29: purchaseInference creates a payment signature and sends a paid
\* request only when the price of the 402 response is at most maxPrice and
\* the USDC balance of the wallet is at least the required amount; otherwise
\* it throws ('exceeds maximum', 'Insufficient balance') and makes no
\* signature and no payment.
C29_PaymentOnlyWithinPriceAndBalance ==
  \A k \in 1..MaxPurchases :
    LET call == purchases[k]
    IN /\ (call.signatures > 0 \/ call.paidRequests > 0)
          => /\ call.status = 402
             /\ call.price <= maxPrice
             /\ call.balanceRead /\ call.balance >= call.price
       /\ (call.status = 402 /\ call.price > maxPrice)
          => /\ call.pc = "threw" /\ call.error = "exceeds maximum"
             /\ call.signatures = 0 /\ call.paidRequests = 0
       /\ (call.balanceRead /\ call.balance < call.price)
          => /\ call.pc = "threw" /\ call.error = "Insufficient balance"
             /\ call.signatures = 0 /\ call.paidRequests = 0

\* The part of C29 about signatures and payments alone: none is made above
\* the maximum price or the balance.
C29_NoPaymentOutsidePriceAndBalance ==
  \A k \in 1..MaxPurchases :
    (purchases[k].signatures > 0 \/ purchases[k].paidRequests > 0)
    => /\ purchases[k].status = 402
       /\ purchases[k].price <= maxPrice
       /\ purchases[k].balanceRead /\ purchases[k].balance >= purchases[k].price


\* ------------------------------------------------------------------------
\* Claims about gene expression (ExpressionSpec)
\* ------------------------------------------------------------------------
\* C23: for every gene of every expressed genome that expressGenome or
\* expressGenomeEnhanced produces, epistasis included, the expressed value
\* is between 0 and 3, and it is 0 for every silenced gene.
C23_ExpressedValueInRange ==
  \A k \in 1..Len(expressions) : \A i \in 1..Len(expressions[k].genes) :
    /\ 0 <= expressions[k].genes[i].expressedValue
    /\ expressions[k].genes[i].expressedValue <= 3000
    /\ expressions[k].genes[i].expressionState = "silenced"
       => expressions[k].genes[i].expressedValue = 0

\* The part of C23 about expressGenome.
C23_PlainExpressedValueInRange ==
  \A k \in 1..Len(expressions) : \A i \in 1..Len(expressions[k].genes) :
    ~expressions[k].enhanced
    => /\ 0 <= expressions[k].genes[i].expressedValue
       /\ expressions[k].genes[i].expressedValue <= 3000
       /\ expressions[k].genes[i].expressionState = "silenced"
          => expressions[k].genes[i].expressedValue = 0

\* C24: expressGenome does not modify the genome it is given: a conditional
\* gene whose condition is false is silenced in the returned result only,
\* the stored expressionState and every other field of the genome are
\* unchanged, and a second call with the same genome and environment returns
\* an equal result.
C24_ExpressGenomeIsPure ==
  /\ givenGenomes = ExpressionGenomes
  /\ \A k \in 1..Len(expressions) : \A i \in 1..Len(expressions[k].genes) :
       (/\ ~expressions[k].enhanced
        /\ expressions[k].given.genes[i].expressionState = "conditional"
        /\ ~evaluateCondition(expressions[k].given.genes[i].activationCondition,
                              expressions[k].environment))
       => /\ expressions[k].genes[i].expressionState = "silenced"
          /\ givenGenomes[expressions[k].g].genes[i].expressionState = "conditional"
  /\ \A j, k \in 1..Len(expressions) :
       (/\ ~expressions[j].enhanced /\ ~expressions[k].enhanced
        /\ expressions[j].g = expressions[k].g
        /\ expressions[j].environment = expressions[k].environment)
       => expressions[j].genes = expressions[k].genes

\* expressGenome has been called twice for the same genome under an
\* environment in which its conditional gene is off.
C24_Witness ==
  /\ Len(expressions) = 2
  /\ ~expressions[1].enhanced /\ ~expressions[2].enhanced
  /\ expressions[1].g = expressions[2].g
  /\ expressions[1].environment = expressions[2].environment
  /\ \E i \in 1..Len(expressions[2].genes) :
       /\ expressions[2].given.genes[i].expressionState = "conditional"
       /\ expressions[2].genes[i].expressionState = "silenced"


\* ------------------------------------------------------------------------
\* Claims about the runs of breed (BreedRunSpec)
\* ------------------------------------------------------------------------
\* C21: two runs of breed on the same context, the random generator being
\* set up identically for both, return identical child genomes and
\* identical mutation logs.
C21_SameContextSameChild ==
  \A j, k \in 1..Len(breedRuns) :
    (breedRuns[j].a = breedRuns[k].a /\ breedRuns[j].b = breedRuns[k].b)
    => /\ breedRuns[j].childGenome = breedRuns[k].childGenome
       /\ breedRuns[j].mutations = breedRuns[k].mutations


\* ------------------------------------------------------------------------
\* Claim about the dispatch of the selected action (Spec)
\* ------------------------------------------------------------------------
\* C30: when dispatching the selected action fails during a cycle, the same
\* cycle continues: it does not end with the error, and its update of the
\* environment counters and its death check are still performed.
C30_DispatchFailureContinues ==
  \A c \in 1..MaxCycles :
    cycles[c].dispatch = "threw" => cycles[c].pc \in {"exec", "done"}

CooperationNext ==
  \E i, j \in 1..Len(CooperationAgents) : \E n \in InteractionCounts :
    i # j /\ RecordCooperation(CooperationAgents[i], CooperationAgents[j], n)

\* The cooperation ledger of one EvolutionManager.
CooperationSpec == Init /\ [][CooperationNext]_vars

HashNext ==
  \E a, b \in 1..Len(HashGenomes) : HashGenomePair(a, b)

\* The hashes of pairs of genomes.
HashSpec == Init /\ [][HashNext]_vars

KinNext ==
  \/ \E pair \in KinInputs : BreedKin(pair[1], pair[2])
  \/ \E pair \in KinInputs : BreedEnhancedKin(pair[1], pair[2])

\* Breeding of two relatives.
KinSpec == Init /\ [][KinNext]_vars

\* ------------------------------------------------------------------------
\* Claims on the daily inscription and the cycle numbers
\* ------------------------------------------------------------------------

C32_CycleNumbersDistinct ==
  \A c, d \in 1..MaxCycles :
    (c < d /\ cycles[c].pc = "done" /\ cycles[d].pc = "done")
      => cycles[c].cycleNumber < cycles[d].cycleNumber

\* C39: a cycle that began when the status was already dead dispatches no
\* action.
C39_NoDispatchAfterDeath ==
  \A c \in 1..MaxCycles :
    cycles[c].pc = "exec" => cycles[c].startStatus # "DEAD"

\* ------------------------------------------------------------------------
\* Claims on the genomes bred from relatives
\* ------------------------------------------------------------------------
HasUniqueGeneIds(chromosomes) ==
  Len(FlatGenes(chromosomes)) = Cardinality(GeneIds(chromosomes))

\* C33: in every genome that breed or breedEnhanced returns for two parents
\* whose own gene ids are unique, no gene id occurs twice, also when a gene id
\* sits in different chromosomes of the two parents.
C33_GeneIdsUnique ==
  /\ HasUniqueGeneIds(bred.childGenome.chromosomes)
  /\ HasUniqueGeneIds(enhanced.childGenome.chromosomes)

\* ------------------------------------------------------------------------
\* Claims on the cooperation ledger
\* ------------------------------------------------------------------------
RECURSIVE RecordedInteractions(_, _, _)
\* The interactions of the first n calls that name the agents a and b, in
\* either order.
RecordedInteractions(a, b, n) ==
  IF n = 0 THEN 0
  ELSE RecordedInteractions(a, b, n - 1)
       + (IF {coopCalls[n].agentA, coopCalls[n].agentB} = {a, b}
          THEN coopCalls[n].interactionCount ELSE 0)

\* C34: the entry of every pair of agents holds exactly the interactions
\* recorded for that pair, in either argument order; recordings for another
\* pair do not change it.
C34_LedgerHoldsPairInteractions ==
  \A i, j \in 1..Len(CooperationAgents) :
    i < j =>
      LET a == CooperationAgents[i]
          b == CooperationAgents[j]
          recordedFor == RecordedInteractions(a, b, Len(coopCalls))
      IN IF recordedFor = 0
         THEN ~MapHas(cooperationLog, CoopKey(a, b))
         ELSE /\ MapHas(cooperationLog, CoopKey(a, b))
              /\ MapGet(cooperationLog, CoopKey(a, b)).interactions = recordedFor

\* ------------------------------------------------------------------------
\* Claims on the caches
\* ------------------------------------------------------------------------

\* C37: a batch computation that has settled, resolved or rejected, is no
\* longer in the pending-computation map, and no getBatch receives the
\* failure of a computation that had failed before it was called.
C37_SettledComputationRemoved ==
  /\ \A p \in pendingComputations : p.settled = "pending"
  /\ \A b \in 1..MaxBatches : ~batches[b].stale

\* C35: the number of entries of the expression cache never exceeds maxSize.
C35_SizeWithinMaxSize == Len(cache) <= maxSize

\* A full cache from which set has evicted an entry.
C35_Witness == Len(cache) = maxSize /\ lastEvict.happened

\* C38: the LRU order list holds exactly the keys stored in the cache, each
\* of them once.
C38_AccessOrderMatchesCache ==
  /\ {accessOrder[i] : i \in 1..Len(accessOrder)} = {cache[i].key : i \in 1..Len(cache)}
  /\ \A i, j \in 1..Len(accessOrder) : accessOrder[i] = accessOrder[j] => i = j

\* Entries are stored after an eviction, an invalidation and a prefetch.
C38_Witness ==
  /\ lastEvict.happened
  /\ lastInvalidate.count > 0
  /\ Len(accessOrder) > 0
  /\ \E r \in 1..MaxExprCalls : exprCalls[r].pc = "prefetched"

\* ------------------------------------------------------------------------
\* Claims on gene transfer and on the genome hash
\* ------------------------------------------------------------------------

\* C40: after performHGT the recipient genome it was given is what it was
\* before the call: a transferred gene is in the returned genome only.
C40_RecipientUnchanged ==
  hgt.called => hgt.recipient = hgt.given

\* The gene-id sequences of the chromosomes, and the set of the edges'
\* source and target.
GeneIdSequences(g) ==
  [c \in 1..Len(g.chromosomes) |->
     [k \in 1..Len(g.chromosomes[c].genes) |-> g.chromosomes[c].genes[k].id]]

EdgeKeys(g) ==
  {<<g.regulatoryNetwork[e].sourceGeneId, g.regulatoryNetwork[e].targetGeneId>> :
     e \in 1..Len(g.regulatoryNetwork)}

\* C36: two genomes with the same gene-id sequences and the same set of edge
\* source and target pairs have the same hash, whatever the order of their
\* edges and the values of their numeric fields.
C36_HashOfStructureOnly ==
  \A i \in 1..Len(hashLog) :
    LET x == HashGenomes[hashLog[i].a]
        y == HashGenomes[hashLog[i].b]
    IN (GeneIdSequences(x) = GeneIdSequences(y) /\ EdgeKeys(x) = EdgeKeys(y))
         => hashLog[i].hashA = hashLog[i].hashB

\* Genomes that differ in numeric fields only, edges in the same order, have
\* the same hash.
C36_HashIgnoresNumericFields ==
  \A i \in 1..Len(hashLog) :
    LET x == HashGenomes[hashLog[i].a]
        y == HashGenomes[hashLog[i].b]
    IN (/\ GeneIdSequences(x) = GeneIdSequences(y)
        /\ [e \in 1..Len(x.regulatoryNetwork) |->
              <<x.regulatoryNetwork[e].sourceGeneId, x.regulatoryNetwork[e].targetGeneId>>]
           = [e \in 1..Len(y.regulatoryNetwork) |->
              <<y.regulatoryNetwork[e].sourceGeneId, y.regulatoryNetwork[e].targetGeneId>>])
         => hashLog[i].hashA = hashLog[i].hashB

====
